---- MODULE Spec2Model ----
(***************************************************************************)
(* Token lifecycle and scope authorization of the user service.            *)
(*                                                                         *)
(* Time is an instant counted in ticks (TicksPerSecond ticks per second)   *)
(* so that the whole-second truncation done by the JWT library is visible. *)
(* A string drawn from a random generator is the pair <<generator, n>>,    *)
(* n being the number of the draw; literal strings are TLA+ strings.       *)
(***************************************************************************)
EXTENDS Integers, FiniteSets, Sequences, TLC

\* ---------------------------------------------------------------- bounds
TicksPerSecond == 2
MaxTicks == 1
MaxTokens == 2
MaxMinted == 1
MaxReqs == 2
MaxRows == 4
MaxRaceRows == 6

\* ------------------------------------------------- program constants
REFRESH_TOKEN_TTL_DAYS == 7
ACCESS_TOKEN_TTL_SECONDS == 3600
SecondsPerDay == 86400

SECRET_KEY == "user-secret"
ALGORITHM == "HS256"

None == [none |-> TRUE]

\* results of a call: a returned value or a raised exception
Ok(v) == [ok |-> TRUE, val |-> v]
Raise(kind, msg) == [ok |-> FALSE, err |-> kind, msg |-> msg]

\* ------------------------------------------------------------ time
\* timedelta(days=d), timedelta(seconds=s) as ticks
timedelta_days(d) == d * SecondsPerDay * TicksPerSecond
timedelta_seconds(s) == s * TicksPerSecond

\* timegm(dt.utctimetuple()): whole seconds since the epoch, fraction dropped
timegm(dt) == dt \div TicksPerSecond

\* datetime.fromtimestamp(ts, tz=UTC)
fromtimestamp(ts) == ts * TicksPerSecond

\* ------------------------------------------------------------ RBAC data
\* PermissionORM.full_name
full_name(p) == IF p.name = "" THEN p.namespace ELSE p.namespace \o "." \o p.name

Perm(ns, n) == [namespace |-> ns, name |-> n]

\* rows inserted by the init migration: the roles admin and user, one
\* permissions row per (permission, role) entry of its list, and one
\* role_permissions row for each
AdminRoleId == <<"role", 1>>
UserRoleId == <<"role", 2>>

SeedRoles ==
    {[id |-> AdminRoleId, name |-> "admin"], [id |-> UserRoleId, name |-> "user"]}

SeedPermissions ==
    {[id |-> <<"permission", 1>>, namespace |-> "users", name |-> ""],
     [id |-> <<"permission", 2>>, namespace |-> "users", name |-> "write"],
     [id |-> <<"permission", 3>>, namespace |-> "users:self", name |-> ""],
     [id |-> <<"permission", 4>>, namespace |-> "users:self", name |-> "write"],
     [id |-> <<"permission", 5>>, namespace |-> "users:self", name |-> ""],
     [id |-> <<"permission", 6>>, namespace |-> "users:self", name |-> "write"]}

SeedRolePermissions ==
    {[role_id |-> AdminRoleId, permission_id |-> <<"permission", k>>] : k \in 1..4}
    \cup {[role_id |-> UserRoleId, permission_id |-> <<"permission", k>>] : k \in 5..6}

\* bcrypt: the hash carries the salt; checkpw recomputes and compares
hashpw(password, salt) == [salt |-> salt, digest |-> <<salt, password>>]
checkpw(password, hash) == hash.digest = <<hash.salt, password>>

\* bcrypt.checkpw on any str: a value that is no bcrypt hash is refused with
\* a ValueError
bcrypt_checkpw(password, hash) ==
    IF "salt" \in DOMAIN hash THEN [ok |-> TRUE, val |-> checkpw(password, hash)]
    ELSE [ok |-> FALSE, err |-> "ValueError", msg |-> "Invalid salt"]

\* TokenUser.verify_password
verify_password(user, password) == checkpw(password, user.password_hash)

UserIds == {"u1", "u2"}
UnknownUserId == "u9"
Emails == {"admin@app.com", "bob@app.com", "nobody@app.com"}
Passwords == {"Admin@123", "Wrong@123"}

\* the users table: the admin inserted by the init migration, and a second
\* user holding the role user
SeedUsers ==
    {[id |-> "u1", email |-> "admin@app.com",
      password_hash |-> hashpw("Admin@123", "s1"), roles |-> {AdminRoleId},
      deleted_at |-> None],
     [id |-> "u2", email |-> "bob@app.com",
      password_hash |-> hashpw("Admin@123", "s2"), roles |-> {UserRoleId},
      deleted_at |-> None]}

VARIABLES now, utc_offset, users, profiles, domain_user, roles, permissions,
          role_permissions, rdraws, tokenStore, draws, minted, revoked,
          inflight, last

\* the RBAC tables, and the number of row ids drawn for them
rbac == <<roles, permissions, role_permissions, rdraws>>

vars == <<now, utc_offset, users, profiles, domain_user, rbac, tokenStore, draws, minted, revoked,
          inflight, last>>

\* TokenRepositoryOnSQLA._map_to_token_user
map_to_token_user(record) ==
    [id |-> record.id,
     password_hash |-> record.password_hash,
     scopes |-> {full_name(p) : p \in
                    {p \in permissions : \E r \in roles, rp \in role_permissions :
                        /\ r.id \in record.roles
                        /\ rp.role_id = r.id
                        /\ rp.permission_id = p.id}}]

\* first row of a result set, or None (the filtered column is unique)
first(rows) == IF rows = {} THEN None ELSE CHOOSE r \in rows : TRUE

\* find_by_token, were removed records kept and not filtered out
find_by_token_with_removed(refresh_token) ==
    first({r \in tokenStore \cup revoked : r.token = refresh_token})

\* TokenRepositoryOnSQLA.find_by_token
find_by_token(refresh_token) ==
    first({r \in tokenStore : r.token = refresh_token})

\* find_user_by_refresh_token_id, were its filter to compare the token column
\* with the id
find_user_by_refresh_token_id_on_token(refresh_token_id) ==
    first({map_to_token_user(u) : u \in
            {u \in users : \E r \in tokenStore :
                              r.user_id = u.id /\ r.token = refresh_token_id}})

\* find_user_by_refresh_token_id, were the filter on the id missing from the
\* join
find_user_by_refresh_token_id_unfiltered(refresh_token_id) ==
    first({map_to_token_user(u) : u \in
            {u \in users : \E r \in tokenStore : r.user_id = u.id}})

\* TokenRepositoryOnSQLA.find_user_by_refresh_token_id
find_user_by_refresh_token_id(refresh_token_id) ==
    first({map_to_token_user(u) : u \in
            {u \in users : \E r \in tokenStore :
                              r.user_id = u.id /\ r.id = refresh_token_id}})

\* TokenRepositoryOnSQLA.find_user_by_refresh_token
find_user_by_refresh_token(refresh_token) ==
    first({map_to_token_user(u) : u \in
            {u \in users : \E r \in tokenStore :
                              r.user_id = u.id /\ r.token = refresh_token}})

\* TokenRepositoryOnSQLA.find_user_by_email
find_user_by_email(email) ==
    first({map_to_token_user(u) : u \in {u \in users : u.email = email}})

\* the TokenUser values a caller can hold: projections of stored users and
\* one user that has no row in the users table
TokenUsers ==
    {map_to_token_user(u) : u \in users}
    \cup {[id |-> UnknownUserId, password_hash |-> hashpw("Admin@123", "s9"),
           scopes |-> {}]}

\* ------------------------------------------------------------ JWT (jose)
\* jwt.encode: a datetime under exp becomes whole seconds since the epoch;
\* the signature binds the claims to the key and algorithm
jwt_encode(claims, key, algorithm) ==
    [wellformed |-> TRUE, key |-> key, alg |-> algorithm,
     claims |-> IF "exp" \in DOMAIN claims
                THEN [claims EXCEPT !.exp = timegm(claims.exp)]
                ELSE claims]

\* jwt.decode: structure, signature, then exp against the clock in whole
\* seconds (rejected only when exp < now)
jwt_decode(token, key, algorithms) ==
    IF ~token.wellformed
    THEN Raise("JWTError", "Not enough segments")
    ELSE IF token.key # key \/ token.alg \notin algorithms
    THEN Raise("JWTError", "Signature verification failed.")
    ELSE IF "exp" \in DOMAIN token.claims /\ token.claims.exp < timegm(now)
    THEN Raise("JWTError", "Signature has expired.")
    ELSE Ok(token.claims)

\* ------------------------------------------------------------ TokenServices
\* RefreshToken(token=secrets.token_urlsafe(128), expiration=..., user_id=...)
\* with id from the default factory (uuid4)
new_refresh_token(user, valid_from) ==
    [id |-> <<"uuid4", draws + 1>>,
     token |-> <<"token_urlsafe", draws + 1>>,
     token_type |-> "refresh",
     expiration |-> valid_from + timedelta_days(REFRESH_TOKEN_TTL_DAYS),
     user_id |-> user.id]

\* save_refresh_token, were the SQLAlchemyError swallowed instead of re-raised
save_refresh_token_swallow(refresh_token, db_ok) ==
    IF /\ db_ok
       /\ \E u \in users : u.id = refresh_token.user_id
       /\ \A r \in tokenStore : r.id # refresh_token.id /\ r.token # refresh_token.token
    THEN [store |-> tokenStore \cup {refresh_token}, res |-> Ok(None)]
    ELSE [store |-> tokenStore, res |-> Ok(None)]

\* TokenRepositoryOnSQLA.save_refresh_token: the insert commits unless the
\* database fails (db_ok false) or a constraint of refresh_tokens is broken
\* (primary key id, unique token, foreign key user_id -> users.id)
save_refresh_token(refresh_token, db_ok) ==
    IF /\ db_ok
       /\ \E u \in users : u.id = refresh_token.user_id
       /\ \A r \in tokenStore : r.id # refresh_token.id /\ r.token # refresh_token.token
    THEN [store |-> tokenStore \cup {refresh_token}, res |-> Ok(None)]
    ELSE [store |-> tokenStore, res |-> Raise("Exception", "Error saving refresh token")]

\* TokenServices.create_refresh_token, as the store it leaves and its result
create_refresh_token(user, valid_from, db_ok) ==
    LET refresh_token == new_refresh_token(user, valid_from)
        saved == save_refresh_token(refresh_token, db_ok)
    IN  IF saved.res.ok
        THEN [store |-> saved.store, res |-> Ok(refresh_token)]
        ELSE [store |-> saved.store, res |-> saved.res]

\* the payload, were rtk to carry the refresh token's string
access_token_claims_rtk_string(user, refresh_token, expire) ==
    [sub |-> user.id, rtk |-> refresh_token.token, exp |-> expire,
     scopes |-> user.scopes]

\* the payload signed by create_access_token
access_token_claims(user, refresh_token, expire) ==
    [sub |-> user.id, rtk |-> refresh_token.id, exp |-> expire,
     scopes |-> user.scopes]

\* create_access_token, were the lifetime not added to valid_from
create_access_token_no_ttl(user, refresh_token, valid_from) ==
    LET expire == valid_from
    IN  [token |-> jwt_encode(access_token_claims(user, refresh_token, expire),
                              SECRET_KEY, ALGORITHM),
         token_type |-> "access",
         expiration |-> expire]

\* TokenServices.create_access_token
create_access_token(user, refresh_token, valid_from) ==
    LET expire == valid_from + timedelta_seconds(ACCESS_TOKEN_TTL_SECONDS)
    IN  [token |-> jwt_encode(access_token_claims(user, refresh_token, expire),
                              SECRET_KEY, ALGORITHM),
         token_type |-> "access",
         expiration |-> expire]

\* TokenServices.get_user_from_refresh_token
get_user_from_refresh_token(refresh_token) ==
    LET user == find_user_by_refresh_token(refresh_token)
    IN  IF user = None
        THEN Raise("ValueError", "Not found user by refresh token")
        ELSE Ok(user)

\* get_refresh_token, were a missing record handed back as None
get_refresh_token_or_none(refresh_token) ==
    Ok(find_by_token(refresh_token))

\* TokenServices.get_refresh_token
get_refresh_token(refresh_token) ==
    LET token == find_by_token(refresh_token)
    IN  IF token = None THEN Raise("ValueError", "Token not found") ELSE Ok(token)

\* TokenServices.get_user_from_access_token
get_user_from_access_token(access_token) ==
    LET decoded == jwt_decode(access_token, SECRET_KEY, {ALGORITHM})
    IN  IF ~decoded.ok THEN decoded
        ELSE LET payload == decoded.val
             IN  IF "rtk" \notin DOMAIN payload
                 THEN Raise("JWTError", "Refresh Token ID not found in token")
                 ELSE IF \/ "exp" \notin DOMAIN payload
                         \/ now > fromtimestamp(payload.exp)
                 THEN Raise("JWTError", "Access token has expired")
                 ELSE LET user == find_user_by_refresh_token_id(payload.rtk)
                      IN  IF user = None
                          THEN Raise("ValueError", "User not found")
                          ELSE Ok(user)

\* get_user_from_access_token_calls, were the user looked up before the rtk
\* claim is tested
get_user_from_access_token_calls_lookup_first(access_token) ==
    LET decoded == jwt_decode(access_token, SECRET_KEY, {ALGORITHM})
    IN  IF ~decoded.ok THEN <<>>
        ELSE <<[call |-> "find_user_by_refresh_token_id",
                refresh_token_id |-> IF "rtk" \in DOMAIN decoded.val
                                     THEN decoded.val.rtk ELSE None]>>

\* the calls get_user_from_access_token makes on the token repository
get_user_from_access_token_calls(access_token) ==
    LET decoded == jwt_decode(access_token, SECRET_KEY, {ALGORITHM})
    IN  IF ~decoded.ok THEN <<>>
        ELSE LET payload == decoded.val
             IN  IF "rtk" \notin DOMAIN payload THEN <<>>
                 ELSE IF \/ "exp" \notin DOMAIN payload
                         \/ now > fromtimestamp(payload.exp)
                 THEN <<>>
                 ELSE <<[call |-> "find_user_by_refresh_token_id",
                         refresh_token_id |-> payload.rtk]>>

\* ------------------------------------------------------------ scope gate
\* UserScope
UserScope == {"users", "users.write", "users:self", "users:self.write"}

\* strings that uuid.UUID() accepts, among the strings of the model
UuidStrings == UserIds \cup {UnknownUserId}

\* UUID.validate_value
validate_value(value) ==
    IF value \in UuidStrings THEN Ok(value)
    ELSE Raise("ValidationError", "Value must be UUID")

\* Actor.has_any_scope, were it to demand every required scope
actor_has_any_scope_all(actor, scopes) == scopes \subseteq actor.scopes

\* Actor.has_any_scope
actor_has_any_scope(actor, scopes) ==
    \E scope \in actor.scopes \cap scopes : scope \in UserScope

HTTPException(status, detail) ==
    [ok |-> FALSE, err |-> "HTTPException", status |-> status, msg |-> detail]

\* has_any_scope, were the actor's scopes read from the user's roles at the
\* time of the request
has_any_scope_of_stored_user(required_scopes, token) ==
    LET decoded == jwt_decode(token, SECRET_KEY, {ALGORITHM})
    IN  IF ~decoded.ok THEN HTTPException(401, "Invalid token")
        ELSE LET payload == decoded.val
                 sub == IF "sub" \in DOMAIN payload THEN payload.sub ELSE ""
                 user_id == validate_value(sub)
                 actor == [user_id |-> sub,
                           scopes |-> UNION {map_to_token_user(u).scopes \cap UserScope :
                                               u \in {u \in users : u.id = sub}}]
             IN  IF ~user_id.ok THEN user_id
                 ELSE IF ~actor_has_any_scope(actor, required_scopes)
                 THEN HTTPException(403, "Insufficient scopes")
                 ELSE Ok(actor)

\* has_any_scope (the FastAPI dependency), after HTTPBearer has extracted the
\* credentials: the decoded token becomes an Actor, then the scope check
has_any_scope(required_scopes, token) ==
    LET decoded == jwt_decode(token, SECRET_KEY, {ALGORITHM})
    IN  IF ~decoded.ok THEN HTTPException(401, "Invalid token")
        ELSE LET payload == decoded.val
                 sub == IF "sub" \in DOMAIN payload THEN payload.sub ELSE ""
                 user_id == validate_value(sub)
                 actor == [user_id |-> sub,
                           scopes |-> IF "scopes" \in DOMAIN payload
                                      THEN payload.scopes \cap UserScope
                                      ELSE {}]
             IN  IF ~user_id.ok THEN user_id
                 ELSE IF ~actor_has_any_scope(actor, required_scopes)
                 THEN HTTPException(403, "Insufficient scopes")
                 ELSE Ok(actor)

\* ------------------------------------------------------------ inputs
Reqs == 1..MaxReqs
Idle == [op |-> "idle"]

\* valid_from as a caller may pass it: datetime.now(UTC), or an instant
\* further in the past than the access-token lifetime
ValidFroms == {now, now - timedelta_seconds(ACCESS_TOKEN_TTL_SECONDS + 1)}

\* refresh token strings a client can present: issued ones, and one that
\* was never issued
NeverIssued == <<"token_urlsafe", 0>>
RefreshTokenStrings ==
    {r.token : r \in tokenStore \cup revoked} \cup {NeverIssued}

\* RefreshToken objects a caller can hold
RefreshTokens == tokenStore \cup revoked

\* minted is a sample of the access tokens the endpoints handed out, at most
\* MaxMinted of them
sample(token) ==
    IF Cardinality(minted \cup {token}) <= MaxMinted
    THEN minted \cup {token} ELSE minted

\* ------------------------------------------------------------ state
Init ==
    /\ now = 0
    /\ utc_offset \in {0, 0 - 3600}
    /\ users = SeedUsers
    /\ profiles = {[user_id |-> u.id, email |-> u.email, deleted_at |-> None] :
                     u \in SeedUsers}
    /\ domain_user = [roles |-> <<>>, prohibited_permissions |-> <<>>]
    /\ roles = SeedRoles
    /\ permissions = SeedPermissions
    /\ role_permissions = SeedRolePermissions
    /\ rdraws = 0
    /\ tokenStore = {}
    /\ draws = 0
    /\ minted = {}
    /\ revoked = {}
    /\ inflight = [i \in Reqs |-> Idle]
    /\ last = [op |-> "init"]

\* ------------------------------------------------------------ clock
\* instant 0 stands for 2025-01-01T00:00:00Z
Tick ==
    /\ now < MaxTicks
    /\ now' = now + 1
    /\ last' = [op |-> "tick"]
    /\ UNCHANGED <<utc_offset, users, profiles, domain_user, rbac, tokenStore, draws, minted, revoked, inflight>>

\* ------------------------------------------------------------ service calls
CreateRefreshToken(user, valid_from, db_ok) ==
    /\ draws < MaxTokens
    /\ LET c == create_refresh_token(user, valid_from, db_ok)
       IN  /\ tokenStore' = c.store
           /\ last' = [op |-> "create_refresh_token", user |-> user,
                       valid_from |-> valid_from, res |-> c.res]
    /\ draws' = draws + 1
    /\ UNCHANGED <<now, utc_offset, users, profiles, domain_user, rbac, minted, revoked, inflight>>

CreateAccessToken(user, refresh_token, valid_from) ==
    /\ LET a == create_access_token(user, refresh_token, valid_from)
       IN  last' = [op |-> "create_access_token", user |-> user,
                    refresh_token |-> refresh_token,
                    valid_from |-> valid_from, res |-> Ok(a)]
    /\ UNCHANGED <<now, utc_offset, users, profiles, domain_user, rbac, tokenStore, draws, minted, revoked, inflight>>

\* create_token_pair, were an unknown email to get its own message
create_token_pair_enumerable(email, password, valid_from, db_ok) ==
    LET user == find_user_by_email(email)
    IN  IF user = None
        THEN [store |-> tokenStore, drawn |-> 0,
              res |-> Raise("ValueError", "User not found.")]
        ELSE IF ~"salt" \in DOMAIN user.password_hash
        THEN [store |-> tokenStore, drawn |-> 0,
              res |-> bcrypt_checkpw(password, user.password_hash)]
        ELSE IF ~verify_password(user, password)
        THEN [store |-> tokenStore, drawn |-> 0,
              res |-> Raise("ValueError", "Incorrect username or password.")]
        ELSE LET c == create_refresh_token(user, valid_from, db_ok)
             IN  IF ~c.res.ok
                 THEN [store |-> c.store, drawn |-> 1, res |-> c.res]
                 ELSE [store |-> c.store, drawn |-> 1,
                       res |-> Ok(<<c.res.val,
                                    create_access_token(user, c.res.val, valid_from)>>)]

\* TokenServices.create_token_pair
create_token_pair(email, password, valid_from, db_ok) ==
    LET user == find_user_by_email(email)
    IN  IF user = None
        THEN [store |-> tokenStore, drawn |-> 0,
              res |-> Raise("ValueError", "Incorrect username or password.")]
        ELSE IF ~"salt" \in DOMAIN user.password_hash
        THEN [store |-> tokenStore, drawn |-> 0,
              res |-> bcrypt_checkpw(password, user.password_hash)]
        ELSE IF ~verify_password(user, password)
        THEN [store |-> tokenStore, drawn |-> 0,
              res |-> Raise("ValueError", "Incorrect username or password.")]
        ELSE LET c == create_refresh_token(user, valid_from, db_ok)
             IN  IF ~c.res.ok
                 THEN [store |-> c.store, drawn |-> 1, res |-> c.res]
                 ELSE [store |-> c.store, drawn |-> 1,
                       res |-> Ok(<<c.res.val,
                                    create_access_token(user, c.res.val, valid_from)>>)]

CreateTokenPair(email, password, valid_from, db_ok) ==
    /\ LET c == create_token_pair(email, password, valid_from, db_ok)
       IN  /\ draws + c.drawn <= MaxTokens
           /\ draws' = draws + c.drawn
           /\ tokenStore' = c.store
           /\ minted' = IF c.res.ok THEN sample(c.res.val[2].token) ELSE minted
           /\ last' = [op |-> "create_token_pair", email |-> email,
                       password |-> password, valid_from |-> valid_from,
                       res |-> c.res]
    /\ UNCHANGED <<now, utc_offset, users, profiles, domain_user, rbac, revoked, inflight>>

GetUserFromRefreshToken(refresh_token) ==
    /\ last' = [op |-> "get_user_from_refresh_token", refresh_token |-> refresh_token,
                res |-> get_user_from_refresh_token(refresh_token)]
    /\ UNCHANGED <<now, utc_offset, users, profiles, domain_user, rbac, tokenStore, draws, minted, revoked, inflight>>

GetRefreshToken(refresh_token) ==
    /\ last' = [op |-> "get_refresh_token", refresh_token |-> refresh_token,
                res |-> get_refresh_token(refresh_token)]
    /\ UNCHANGED <<now, utc_offset, users, profiles, domain_user, rbac, tokenStore, draws, minted, revoked, inflight>>

GetUserFromAccessToken(access_token) ==
    /\ last' = [op |-> "get_user_from_access_token", access_token |-> access_token,
                calls |-> get_user_from_access_token_calls(access_token),
                res |-> get_user_from_access_token(access_token)]
    /\ UNCHANGED <<now, utc_offset, users, profiles, domain_user, rbac, tokenStore, draws, minted, revoked, inflight>>

\* ------------------------------------------------------------ revoke
\* remove_refresh_token, were its delete to filter on the user alone
remove_refresh_token_all_of_user(user_id, refresh_token, db_ok) ==
    LET rows == {r \in tokenStore : r.user_id = user_id}
    IN  IF ~db_ok
        THEN [store |-> tokenStore, removed |-> {},
              res |-> Raise("Exception", "Error removing refresh token")]
        ELSE IF rows = {}
        THEN [store |-> tokenStore, removed |-> {},
              res |-> Raise("ValueError", "Refresh token not found for user")]
        ELSE [store |-> tokenStore \ rows, removed |-> rows, res |-> Ok(None)]

\* remove_refresh_token, were it to ignore the number of deleted rows
remove_refresh_token_no_rowcount(user_id, refresh_token, db_ok) ==
    LET rows == {r \in tokenStore : r.user_id = user_id /\ r.token = refresh_token}
    IN  IF ~db_ok
        THEN [store |-> tokenStore, removed |-> {},
              res |-> Raise("Exception", "Error removing refresh token")]
        ELSE [store |-> tokenStore \ rows, removed |-> rows, res |-> Ok(None)]

\* TokenRepositoryOnSQLA.remove_refresh_token
remove_refresh_token(user_id, refresh_token, db_ok) ==
    LET rows == {r \in tokenStore : r.user_id = user_id /\ r.token = refresh_token}
    IN  IF ~db_ok
        THEN [store |-> tokenStore, removed |-> {},
              res |-> Raise("Exception", "Error removing refresh token")]
        ELSE IF rows = {}
        THEN [store |-> tokenStore, removed |-> {},
              res |-> Raise("ValueError", "Refresh token not found for user")]
        ELSE [store |-> tokenStore \ rows, removed |-> rows, res |-> Ok(None)]

\* the except clause of revoke_refresh_token
revoke_error(e) == Raise("ValueError", "Error revoking refresh token: " \o e.msg)

\* revoke_refresh_token up to its first await: the owner lookup
RevokeFindUser(i, refresh_token, db_ok) ==
    /\ inflight[i] = Idle
    /\ LET user == find_user_by_refresh_token(refresh_token)
       IN  IF ~db_ok
           THEN /\ last' = [op |-> "revoke_refresh_token", refresh_token |-> refresh_token,
                            res |-> revoke_error(Raise("Exception", "DB error"))]
                /\ UNCHANGED inflight
           ELSE IF user = None
           THEN /\ last' = [op |-> "revoke_refresh_token", refresh_token |-> refresh_token,
                            res |-> revoke_error(Raise("ValueError", "Refresh token not found"))]
                /\ UNCHANGED inflight
           ELSE /\ inflight' = [inflight EXCEPT ![i] =
                                   [op |-> "revoke", refresh_token |-> refresh_token,
                                    user |-> user]]
                /\ last' = [op |-> "await"]
    /\ UNCHANGED <<now, utc_offset, users, profiles, domain_user, rbac, tokenStore, draws, minted, revoked>>

\* revoke_refresh_token from the delete to its return
RevokeRemove(i, db_ok) ==
    /\ inflight[i].op = "revoke"
    /\ LET c == remove_refresh_token(inflight[i].user.id, inflight[i].refresh_token, db_ok)
       IN  /\ tokenStore' = c.store
           /\ revoked' = revoked \cup c.removed
           /\ last' = [op |-> "revoke_refresh_token",
                       refresh_token |-> inflight[i].refresh_token,
                       res |-> IF c.res.ok THEN c.res ELSE revoke_error(c.res)]
    /\ inflight' = [inflight EXCEPT ![i] = Idle]
    /\ UNCHANGED <<now, utc_offset, users, profiles, domain_user, rbac, draws, minted>>

\* ------------------------------------------------------------ refresh
\* the except clause of the controller's refresh_access_token
refresh_error(e) ==
    HTTPException(400, "Error refreshing access token: " \o e.msg)

\* TokenController.refresh_access_token up to get_refresh_token
RefreshGetToken(i, refresh_token) ==
    /\ inflight[i] = Idle
    /\ LET token == get_refresh_token(refresh_token)
       IN  IF ~token.ok
           THEN /\ last' = [op |-> "refresh_access_token", refresh_token |-> refresh_token,
                            res |-> refresh_error(token)]
                /\ UNCHANGED inflight
           ELSE /\ inflight' = [inflight EXCEPT ![i] =
                                   [op |-> "refresh", pc |-> "user",
                                    refresh_token |-> refresh_token,
                                    token |-> token.val]]
                /\ last' = [op |-> "await"]
    /\ UNCHANGED <<now, utc_offset, users, profiles, domain_user, rbac, tokenStore, draws, minted, revoked>>

\* ... its second await, get_user_from_refresh_token
RefreshGetUser(i) ==
    /\ inflight[i].op = "refresh"
    /\ inflight[i].pc = "user"
    /\ LET user == get_user_from_refresh_token(inflight[i].refresh_token)
       IN  IF ~user.ok
           THEN /\ last' = [op |-> "refresh_access_token",
                            refresh_token |-> inflight[i].refresh_token,
                            res |-> refresh_error(user)]
                /\ inflight' = [inflight EXCEPT ![i] = Idle]
           ELSE /\ inflight' = [inflight EXCEPT ![i] =
                                   [op |-> "refresh", pc |-> "mint",
                                    refresh_token |-> inflight[i].refresh_token,
                                    token |-> inflight[i].token,
                                    user |-> user.val]]
                /\ last' = [op |-> "await"]
    /\ UNCHANGED <<now, utc_offset, users, profiles, domain_user, rbac, tokenStore, draws, minted, revoked>>

\* ... and the rest: create_access_token with valid_from = datetime.now()
RefreshMint(i) ==
    /\ inflight[i].op = "refresh"
    /\ inflight[i].pc = "mint"
    /\ LET a == create_access_token(inflight[i].user, inflight[i].token,
                                 now + timedelta_seconds(utc_offset))
       IN  /\ minted' = sample(a.token)
           /\ last' = [op |-> "refresh_access_token",
                       refresh_token |-> inflight[i].refresh_token,
                       res |-> Ok([access_token |-> a.token, expiration |-> a.expiration])]
    /\ inflight' = [inflight EXCEPT ![i] = Idle]
    /\ UNCHANGED <<now, utc_offset, users, profiles, domain_user, rbac, tokenStore, draws, revoked>>

\* ------------------------------------------------------------ role repository
\* the RBAC tables as one value, so that a service call can thread them
\* through its repository calls
Db ==
    [roles |-> roles, permissions |-> permissions,
     role_permissions |-> role_permissions, rdraws |-> rdraws]

\* rows of the permissions table with this (namespace, name)
permission_rows(db, permission) ==
    {p \in db.permissions :
        p.namespace = permission.namespace /\ p.name = permission.name}

\* RoleRepositoryOnSQLA._map_to_domain: the permissions become a set of
\* (namespace, name) values
map_to_domain(db, record) ==
    [id |-> record.id,
     name |-> record.name,
     permissions |->
        {Perm(p.namespace, p.name) : p \in
            {p \in db.permissions : \E rp \in db.role_permissions :
                rp.role_id = record.id /\ rp.permission_id = p.id}}]

\* RoleRepositoryOnSQLA.find_by_id
find_by_id(db, role_id) ==
    LET rows == {r \in db.roles : r.id = role_id}
    IN  IF rows = {} THEN None ELSE map_to_domain(db, CHOOSE r \in rows : TRUE)

\* RoleRepositoryOnSQLA.find_permission
find_permission(db, namespace, name) ==
    IF permission_rows(db, Perm(namespace, name)) = {}
    THEN None ELSE Perm(namespace, name)

\* RoleRepositoryOnSQLA.ensure_permission_exists; the id of an inserted row
\* comes from the column default (uuid4)
ensure_permission_exists(db, permission) ==
    IF find_permission(db, permission.namespace, permission.name) # None
    THEN [db |-> db, res |-> Ok(permission)]
    ELSE [db |-> [db EXCEPT !.permissions = @ \cup
                                   {[id |-> <<"uuid4", db.rdraws + 1>>,
                                     namespace |-> permission.namespace,
                                     name |-> permission.name]},
                               !.rdraws = @ + 1],
          res |-> Ok(permission)]

\* the permissions in some order, as session.merge meets them
RECURSIVE in_order(_)
in_order(S) ==
    IF S = {} THEN <<>>
    ELSE LET x == CHOOSE x \in S : TRUE IN <<x>> \o in_order(S \ {x})

\* save, were merge to add the permissions to the role's collection and
\* keep the rows that are linked already
save_keeping_links(db, role) ==
    LET perms == in_order(role.permissions)
        fresh == {[id |-> <<"uuid4", db.rdraws + k>>,
                   namespace |-> perms[k].namespace,
                   name |-> perms[k].name] : k \in 1..Len(perms)}
    IN  [db |-> [db EXCEPT
                    !.roles = {r \in @ : r.id # role.id}
                                \cup {[id |-> role.id, name |-> role.name]},
                    !.permissions = @ \cup fresh,
                    !.role_permissions =
                        @ \cup {[role_id |-> role.id, permission_id |-> p.id] :
                                   p \in fresh},
                    !.rdraws = @ + Len(perms)],
         res |-> Ok(None)]

\* RoleRepositoryOnSQLA.save: session.merge of a RoleORM whose permissions are
\* PermissionORM objects without a primary key.  merge finds or creates
\* the roles row by id; every PermissionORM without a key is a new object, so
\* one permissions row is inserted for each, and the role's collection is
\* replaced by the new rows (its former role_permissions rows are deleted,
\* the former permissions rows stay).  roles.name is unique.
save(db, role) ==
    LET perms == in_order(role.permissions)
        fresh == {[id |-> <<"uuid4", db.rdraws + k>>,
                   namespace |-> perms[k].namespace,
                   name |-> perms[k].name] : k \in 1..Len(perms)}
    IN  IF \E r \in db.roles : r.name = role.name /\ r.id # role.id
        THEN [db |-> db, res |-> Raise("Exception", "Error saving role")]
        ELSE [db |-> [db EXCEPT
                        !.roles = {r \in @ : r.id # role.id}
                                    \cup {[id |-> role.id, name |-> role.name]},
                        !.permissions = @ \cup fresh,
                        !.role_permissions =
                            {rp \in @ : rp.role_id # role.id}
                            \cup {[role_id |-> role.id, permission_id |-> p.id] :
                                    p \in fresh},
                        !.rdraws = @ + Len(perms)],
              res |-> Ok(None)]

\* RoleRepositoryOnSQLA.delete: DELETE FROM roles WHERE id = ...; the foreign
\* keys of role_permissions and user_roles reject it while a row refers to
\* the role
delete(db, role) ==
    IF \/ \E rp \in db.role_permissions : rp.role_id = role.id
       \/ \E u \in users : role.id \in u.roles
    THEN [db |-> db, res |-> Raise("Exception", "Error deleting role")]
    ELSE [db |-> [db EXCEPT !.roles = {r \in @ : r.id # role.id}],
          res |-> Ok(None)]

\* any_role_uses_permission without the filter on namespace and name
any_role_uses_permission_unfiltered(db, permission) ==
    \E r \in db.roles, rp \in db.role_permissions : rp.role_id = r.id

\* RoleRepositoryOnSQLA.any_role_uses_permission
any_role_uses_permission(db, permission) ==
    \E r \in db.roles, rp \in db.role_permissions :
        /\ rp.role_id = r.id
        /\ \E p \in permission_rows(db, permission) : rp.permission_id = p.id

\* ensure_permission_deleted, were no foreign key to stop the DELETE
ensure_permission_deleted_unchecked(db, permission) ==
    [db |-> [db EXCEPT !.permissions = @ \ permission_rows(db, permission)],
     res |-> Ok(None)]

\* RoleRepositoryOnSQLA.ensure_permission_deleted: DELETE FROM permissions
\* WHERE namespace = ... AND name = ...; the foreign key of role_permissions
\* rejects it while a row refers to one of the rows
ensure_permission_deleted(db, permission) ==
    LET rows == permission_rows(db, permission)
    IN  IF \E rp \in db.role_permissions, p \in rows : rp.permission_id = p.id
        THEN [db |-> db, res |-> Raise("Exception", "Error deleting permission")]
        ELSE [db |-> [db EXCEPT !.permissions = @ \ rows], res |-> Ok(None)]

\* ------------------------------------------------------------ RoleServices
\* A permission string of a RoleInput is a sequence of pieces: the piece "."
\* is one '.' character, every other piece is text without a '.'.
Dot == "."

\* str.split("."): the texts between the dots, "" where two dots meet or the
\* string starts or ends with one
RECURSIVE split(_)
split(str) ==
    IF str = <<>> THEN <<"">>
    ELSE IF Head(str) = Dot THEN <<"">> \o split(Tail(str))
    ELSE LET rest == split(Tail(str))
         IN  <<Head(str) \o Head(rest)>> \o Tail(rest)

\* `namespace, name = perm.split(".")`: unpacking needs exactly two values
unpack_split(str) ==
    LET parts == split(str)
    IN  IF Len(parts) > 2
        THEN Raise("ValueError", "too many values to unpack (expected 2)")
        ELSE IF Len(parts) < 2
        THEN Raise("ValueError", "not enough values to unpack (expected 2)")
        ELSE Ok(Perm(parts[1], parts[2]))

\* the loop of create_role over permissions that unpack: find_permission,
\* and ensure_permission_exists for the ones not found
RECURSIVE ensure_all(_, _)
ensure_all(db, perms) ==
    IF perms = {} THEN db
    ELSE LET perm == CHOOSE x \in perms : TRUE
             next == IF find_permission(db, perm.namespace, perm.name) # None
                     THEN db
                     ELSE ensure_permission_exists(db, perm).db
         IN  ensure_all(next, perms \ {perm})

\* RoleServices.create_role.  The loop runs over a set, in no fixed order:
\* when a string does not unpack, `before` is the part of the others the
\* loop met first.  The new role's id is RoleId(), a uuid4.
create_role(db, input, before) ==
    LET unpacked == {unpack_split(str) : str \in input.permissions}
        good     == {u.val : u \in {u \in unpacked : u.ok}}
        bad      == {u \in unpacked : ~u.ok}
    IN  IF bad # {}
        THEN [db |-> ensure_all(db, good \cap before),
              res |-> CHOOSE u \in bad : TRUE]
        ELSE LET db1   == ensure_all(db, good)
                 role  == [id |-> <<"uuid4", db1.rdraws + 1>>,
                           name |-> input.name, permissions |-> good]
                 saved == save([db1 EXCEPT !.rdraws = @ + 1], role)
             IN  IF saved.res.ok
                 THEN [db |-> saved.db, res |-> Ok(role)]
                 ELSE [db |-> saved.db, res |-> saved.res]

\* RoleServices.delete_role
delete_role(db, role_id) ==
    LET role == find_by_id(db, role_id)
    IN  IF role = None THEN [db |-> db, res |-> Ok(FALSE)]
        ELSE LET deleted == delete(db, role)
             IN  IF deleted.res.ok
                 THEN [db |-> deleted.db, res |-> Ok(TRUE)]
                 ELSE deleted

\* assign_permission_to_role, were the permission ensured before the role
\* is looked up
assign_permission_to_role_ensure_first(db, role_id, permission) ==
    LET ensured == ensure_permission_exists(db, permission)
        role    == find_by_id(ensured.db, role_id)
    IN  IF role = None THEN [db |-> ensured.db, res |-> Ok(FALSE)]
        ELSE LET saved == save(ensured.db,
                               [role EXCEPT !.permissions = @ \cup {ensured.res.val}])
             IN  IF saved.res.ok
                 THEN [db |-> saved.db, res |-> Ok(TRUE)]
                 ELSE saved

\* RoleServices.assign_permission_to_role
assign_permission_to_role(db, role_id, permission) ==
    LET role == find_by_id(db, role_id)
    IN  IF role = None THEN [db |-> db, res |-> Ok(FALSE)]
        ELSE LET ensured == ensure_permission_exists(db, permission)
                 saved   == save(ensured.db,
                                 [role EXCEPT !.permissions = @ \cup {ensured.res.val}])
             IN  IF saved.res.ok
                 THEN [db |-> saved.db, res |-> Ok(TRUE)]
                 ELSE saved

\* RoleServices.remove_permission_from_role
remove_permission_from_role(db, role_id, permission) ==
    LET role == find_by_id(db, role_id)
    IN  IF role = None THEN [db |-> db, res |-> Ok(FALSE)]
        ELSE IF permission \notin role.permissions THEN [db |-> db, res |-> Ok(FALSE)]
        ELSE LET saved == save(db, [role EXCEPT !.permissions = @ \ {permission}])
             IN  IF ~saved.res.ok THEN saved
                 ELSE IF any_role_uses_permission(saved.db, permission)
                 THEN [db |-> saved.db, res |-> Ok(TRUE)]
                 ELSE LET deleted == ensure_permission_deleted(saved.db, permission)
                      IN  IF deleted.res.ok
                          THEN [db |-> deleted.db, res |-> Ok(TRUE)]
                          ELSE deleted

\* what a caller of RoleServices can pass
UnknownRoleId == <<"role", 0>>
RoleIds == {r.id : r \in roles} \cup {UnknownRoleId}

PermissionValues ==
    {Perm("users", ""), Perm("users:self", ""), Perm("reports", "read")}

RoleInputs ==
    {[name |-> "editor", permissions |-> ps] :
        ps \in {{}, {<<"reports", Dot, "read">>},
                {<<"reports", Dot, "read">>, <<"users:self", Dot>>},
                {<<"reports", Dot, "read">>, <<"a", Dot, "b", Dot, "c">>},
                {<<"users">>}}}
    \cup {[name |-> "admin", permissions |-> {}]}

\* the permissions the loop of create_role met before a string that does
\* not unpack: none of the others, or all of them
Befores == {{}, PermissionValues}

\* a call of RoleServices leaves the tables of its result
Commit(c) ==
    /\ c.db.rdraws <= MaxRows
    /\ roles' = c.db.roles
    /\ permissions' = c.db.permissions
    /\ role_permissions' = c.db.role_permissions
    /\ rdraws' = c.db.rdraws

CreateRole(input, before) ==
    /\ LET c == create_role(Db, input, before)
       IN  /\ Commit(c)
           /\ last' = [op |-> "create_role", input |-> input, res |-> c.res]
    /\ UNCHANGED <<now, utc_offset, users, profiles, domain_user, tokenStore, draws, minted, revoked, inflight>>

DeleteRole(role_id) ==
    /\ LET c == delete_role(Db, role_id)
       IN  /\ Commit(c)
           /\ last' = [op |-> "delete_role", role_id |-> role_id, res |-> c.res]
    /\ UNCHANGED <<now, utc_offset, users, profiles, domain_user, tokenStore, draws, minted, revoked, inflight>>

AssignPermissionToRole(role_id, permission) ==
    /\ LET c == assign_permission_to_role(Db, role_id, permission)
       IN  /\ Commit(c)
           /\ last' = [op |-> "assign_permission_to_role", role_id |-> role_id,
                       permission |-> permission, res |-> c.res]
    /\ UNCHANGED <<now, utc_offset, users, profiles, domain_user, tokenStore, draws, minted, revoked, inflight>>

RemovePermissionFromRole(role_id, permission) ==
    /\ LET c == remove_permission_from_role(Db, role_id, permission)
       IN  /\ Commit(c)
           /\ last' = [op |-> "remove_permission_from_role", role_id |-> role_id,
                       permission |-> permission, res |-> c.res]
    /\ UNCHANGED <<now, utc_offset, users, profiles, domain_user, tokenStore, draws, minted, revoked, inflight>>

\* ------------------------------------------------ concurrent RoleServices
\* A RoleServices call awaits one repository call after the other, and
\* every repository call commits on its own: between two of them the calls
\* of other requests run.  A request slot holds the call's local variables;
\* a call starts in a slot that is Idle.
\* the tables after a repository call of a concurrent request
CommitRace(db) ==
    /\ db.rdraws <= MaxRaceRows
    /\ roles' = db.roles
    /\ permissions' = db.permissions
    /\ role_permissions' = db.role_permissions
    /\ rdraws' = db.rdraws
    /\ UNCHANGED <<now, utc_offset, users, profiles, domain_user, tokenStore, draws,
                   minted, revoked>>

\* the call in slot i returns or raises
Return(i, call, slot, res) ==
    /\ inflight' = [inflight EXCEPT ![i] = Idle]
    /\ last' = [op |-> call, slot |-> i, role_id |-> slot.role_id,
                permission |-> slot.permission, read |-> slot.read, res |-> res]

\* the call in slot i goes on to its next repository call
Await(i, slot) ==
    /\ inflight' = [inflight EXCEPT ![i] = slot]
    /\ last' = [op |-> "await"]

\* assign_permission_to_role: find_by_id
AssignFind(i, role_id, permission) ==
    /\ inflight[i] = Idle
    /\ LET role == find_by_id(Db, role_id)
           slot == [op |-> "assign", pc |-> "ensure", role_id |-> role_id,
                    permission |-> permission, role |-> role,
                    read |-> IF role = None THEN {} ELSE role.permissions]
       IN  IF role = None
           THEN Return(i, "assign_permission_to_role", slot, Ok(FALSE))
           ELSE Await(i, slot)
    /\ CommitRace(Db)

\* ... ensure_permission_exists and role.permissions.add
AssignEnsure(i) ==
    /\ inflight[i].op = "assign"
    /\ inflight[i].pc = "ensure"
    /\ LET ensured == ensure_permission_exists(Db, inflight[i].permission)
       IN  /\ Await(i, [inflight[i] EXCEPT
                           !.pc = "save",
                           !.role.permissions = @ \cup {ensured.res.val}])
           /\ CommitRace(ensured.db)

\* ... save; with a return of true, `after` is the assign_permission_to_role
\* call that returned in the step before, if one did
AssignSave(i) ==
    /\ inflight[i].op = "assign"
    /\ inflight[i].pc = "save"
    /\ LET saved == save(Db, inflight[i].role)
           slot == inflight[i]
       IN  /\ IF saved.res.ok
              THEN /\ inflight' = [inflight EXCEPT ![i] = Idle]
                   /\ last' = [op |-> "assign_permission_to_role", slot |-> i,
                               role_id |-> slot.role_id,
                               permission |-> slot.permission,
                               read |-> slot.read, res |-> Ok(TRUE),
                               after |->
                                   IF /\ "slot" \in DOMAIN last
                                      /\ last.op = "assign_permission_to_role"
                                   THEN [slot |-> last.slot,
                                         role_id |-> last.role_id,
                                         permission |-> last.permission,
                                         res |-> last.res]
                                   ELSE None]
              ELSE Return(i, "assign_permission_to_role", slot, saved.res)
           /\ CommitRace(saved.db)

\* remove_permission_from_role: find_by_id and role.permissions.remove
RemoveFind(i, role_id, permission) ==
    /\ inflight[i] = Idle
    /\ LET role == find_by_id(Db, role_id)
           slot == [op |-> "remove", pc |-> "save", role_id |-> role_id,
                    permission |-> permission, role |-> role,
                    read |-> IF role = None THEN {} ELSE role.permissions]
       IN  IF role = None \/ permission \notin slot.read
           THEN Return(i, "remove_permission_from_role", slot, Ok(FALSE))
           ELSE Await(i, [slot EXCEPT !.role.permissions = @ \ {permission}])
    /\ CommitRace(Db)

\* ... save
RemoveSave(i) ==
    /\ inflight[i].op = "remove"
    /\ inflight[i].pc = "save"
    /\ LET saved == save(Db, inflight[i].role)
       IN  /\ IF saved.res.ok
              THEN Await(i, [inflight[i] EXCEPT !.pc = "uses"])
              ELSE Return(i, "remove_permission_from_role", inflight[i], saved.res)
           /\ CommitRace(saved.db)

\* ... any_role_uses_permission
RemoveUses(i) ==
    /\ inflight[i].op = "remove"
    /\ inflight[i].pc = "uses"
    /\ IF any_role_uses_permission(Db, inflight[i].permission)
       THEN Return(i, "remove_permission_from_role", inflight[i], Ok(TRUE))
       ELSE Await(i, [inflight[i] EXCEPT !.pc = "delete"])
    /\ CommitRace(Db)

\* ... ensure_permission_deleted
RemoveDelete(i) ==
    /\ inflight[i].op = "remove"
    /\ inflight[i].pc = "delete"
    /\ LET deleted == ensure_permission_deleted(Db, inflight[i].permission)
       IN  /\ Return(i, "remove_permission_from_role", inflight[i],
                     IF deleted.res.ok THEN Ok(TRUE) ELSE deleted.res)
           /\ CommitRace(deleted.db)

\* delete_role: find_by_id
DeleteFind(i, role_id) ==
    /\ inflight[i] = Idle
    /\ LET role == find_by_id(Db, role_id)
           slot == [op |-> "delete", pc |-> "delete", role_id |-> role_id,
                    permission |-> None, role |-> role, read |-> {}]
       IN  IF role = None
           THEN Return(i, "delete_role", slot, Ok(FALSE))
           ELSE Await(i, slot)
    /\ CommitRace(Db)

\* ... delete
DeleteDelete(i) ==
    /\ inflight[i].op = "delete"
    /\ inflight[i].pc = "delete"
    /\ LET deleted == delete(Db, inflight[i].role)
       IN  /\ Return(i, "delete_role", inflight[i],
                     IF deleted.res.ok THEN Ok(TRUE) ELSE deleted.res)
           /\ CommitRace(deleted.db)

\* create_role with one permission string that unpacks: find_permission and
\* ensure_permission_exists.  (ensure_permission_exists looks the
\* permission up again before it inserts, so the two calls leave the row
\* there whenever either of them runs.)
CreateEnsure(i, input) ==
    /\ inflight[i] = Idle
    /\ Cardinality(input.permissions) = 1
    /\ \A str \in input.permissions : unpack_split(str).ok
    /\ LET good == {unpack_split(str).val : str \in input.permissions}
           db1  == ensure_all(Db, good)
       IN  /\ Await(i, [op |-> "create", pc |-> "save", role_id |-> None,
                        permission |-> None, read |-> {},
                        role |-> [id |-> <<"uuid4", db1.rdraws + 1>>,
                                  name |-> input.name, permissions |-> good]])
           /\ CommitRace([db1 EXCEPT !.rdraws = @ + 1])

\* ... save
CreateSave(i) ==
    /\ inflight[i].op = "create"
    /\ inflight[i].pc = "save"
    /\ LET saved == save(Db, inflight[i].role)
       IN  /\ Return(i, "create_role", inflight[i],
                     IF saved.res.ok THEN Ok(inflight[i].role) ELSE saved.res)
           /\ CommitRace(saved.db)

\* ------------------------------------------------------------ requests
\* tokens not minted by this service: one complete set of claims that expires
\* one second from now, and its variants with one claim changed or left
\* out, signed with the service key; one signed with another key; one that
\* is not a JWT
CraftedBase ==
    [sub |-> "u1", rtk |-> <<"uuid4", 1>>, exp |-> timegm(now) + 1,
     scopes |-> {"users:self"}]

CraftedTokens ==
    {[wellformed |-> TRUE, key |-> SECRET_KEY, alg |-> ALGORITHM, claims |-> c] :
        c \in {CraftedBase,
               [CraftedBase EXCEPT !.exp = timegm(now)],
               [CraftedBase EXCEPT !.exp = timegm(now) - 1],
               [CraftedBase EXCEPT !.sub = "12345"],
               [CraftedBase EXCEPT !.scopes = {"users", "roles"}]}
              \cup {[f \in DOMAIN CraftedBase \ {k} |-> CraftedBase[f]] :
                       k \in {"sub", "rtk", "exp", "scopes"}}}
    \cup {[wellformed |-> TRUE, key |-> "other-secret", alg |-> ALGORITHM,
           claims |-> CraftedBase],
          [wellformed |-> FALSE, key |-> SECRET_KEY, alg |-> ALGORITHM,
           claims |-> [sub |-> "u1"]]}

AccessTokenStrings == minted \cup CraftedTokens

\* the crafted tokens that differ in what TokenServices reads: signature,
\* structure, rtk and exp
ServiceCraftedTokens ==
    {t \in CraftedTokens :
        \/ ~t.wellformed
        \/ t.key # SECRET_KEY
        \/ "sub" \in DOMAIN t.claims /\ "scopes" \in DOMAIN t.claims
              /\ t.claims.sub = "u1" /\ t.claims.scopes = {"users:self"}}

\* scope lists a Security(has_any_scope, scopes=[...]) declaration hands to
\* the gate: single scopes as the endpoints declare them, a list of two, and
\* the empty list
RequiredScopes == {{"users"}, {"users", "users:self"}, {"users.write"}, {}}

\* HTTPBearer rejects a request without bearer credentials; the status it
\* uses is 403 or 401 depending on the framework release
BearerStatuses == {403, 401}

\* requests: without credentials, or with a bearer token
NoCredentials == [credentials |-> FALSE]
Bearer(token) == [credentials |-> TRUE, token |-> token]

\* one request through the scope gate
HasAnyScope(required_scopes, request, bearer_status) ==
    /\ last' = [op |-> "has_any_scope", required_scopes |-> required_scopes,
                request |-> request,
                res |-> IF ~request.credentials
                        THEN HTTPException(bearer_status, "Not authenticated")
                        ELSE has_any_scope(required_scopes, request.token)]
    /\ UNCHANGED <<now, utc_offset, users, profiles, domain_user, rbac, tokenStore, draws, minted, revoked, inflight>>

\* ------------------------------------------------- users.core.users.domain
\* roles.domain.Permission.full_name
role_permission_full_name(p) == p.namespace \o "." \o p.name

\* users.domain.Permission.full_name
user_permission_full_name(p) == p.namespace \o "." \o p.name

\* map_user_orm_to_user: the user with its roles and their permissions
map_user_orm_to_user(db, user_orm) ==
    [id |-> user_orm.id,
     email |-> user_orm.email,
     password_hash |-> user_orm.password_hash,
     roles |-> in_order({[user_id |-> user_orm.id,
                          role |-> [id |-> r.id, name |-> r.name,
                                    permissions |-> map_to_domain(db, r).permissions]] :
                           r \in {r \in db.roles : r.id \in user_orm.roles}})]

\* UserRepositoryOnSQLA.find_user_by_id
find_user_by_id(db, user_id) ==
    IF \E u \in users : u.id = user_id
    THEN map_user_orm_to_user(db, CHOOSE u \in users : u.id = user_id)
    ELSE None

\* User.get_permissions
get_permissions(user) ==
    UNION {{user_permission_full_name(p) : p \in user.roles[k].role.permissions} :
             k \in 1..Len(user.roles)}

\* a stored user is loaded and asked for its permissions
GetPermissions(user_id) ==
    /\ LET user == find_user_by_id(Db, user_id)
       IN  last' = [op |-> "get_permissions", user_id |-> user_id,
                    res |-> IF user = None THEN None ELSE Ok(get_permissions(user))]
    /\ UNCHANGED <<now, utc_offset, users, profiles, domain_user, rbac, tokenStore, draws, minted,
                   revoked, inflight>>

\* ------------------------------------------------------ users.core.domain
\* Role.get_permission_names
get_permission_names(role) ==
    [k \in 1..Len(role.permissions) |-> role.permissions[k].scope_name]

\* `x in list`
in_list(x, list) == \E k \in 1..Len(list) : list[k] = x

\* list.remove(x): the first occurrence goes
list_remove(list, x) ==
    LET k == CHOOSE k \in 1..Len(list) :
                 list[k] = x /\ \A j \in 1..(k - 1) : list[j] # x
    IN  SubSeq(list, 1, k - 1) \o SubSeq(list, k + 1, Len(list))

\* has_permission that asks the roles before the prohibitions
has_permission_roles_first(user, permission) ==
    IF \E k \in 1..Len(user.roles) :
          in_list(permission.scope_name, get_permission_names(user.roles[k]))
    THEN TRUE
    ELSE FALSE

\* User.has_permission
has_permission(user, permission) ==
    IF in_list(permission.scope_name, user.prohibited_permissions)
    THEN FALSE
    ELSE \E k \in 1..Len(user.roles) :
            in_list(permission.scope_name, get_permission_names(user.roles[k]))

\* User.add_role
add_role(user, role) ==
    IF in_list(role, user.roles) THEN user
    ELSE [user EXCEPT !.roles = Append(@, role)]

\* User.remove_role: list.remove raises ValueError when the role is absent
remove_role(user, role) ==
    IF in_list(role, user.roles)
    THEN [user |-> [user EXCEPT !.roles = list_remove(@, role)], res |-> Ok(None)]
    ELSE [user |-> user, res |-> Raise("ValueError", "list.remove(x): x not in list")]

\* User.add_prohibited_permission
add_prohibited_permission(user, permission) ==
    IF in_list(permission.scope_name, user.prohibited_permissions) THEN user
    ELSE [user EXCEPT !.prohibited_permissions = Append(@, permission.scope_name)]

\* User.remove_prohibited_permission
remove_prohibited_permission(user, permission) ==
    IF in_list(permission.scope_name, user.prohibited_permissions)
    THEN [user EXCEPT !.prohibited_permissions = list_remove(@, permission.scope_name)]
    ELSE user

\* the permissions and roles a caller can pass to the user
DomainPermissions ==
    {[id |-> <<"permission", s>>, scope_name |-> s] : s \in {"read", "write", "delete"}}

DomainRoles ==
    {[id |-> <<"role", "reader">>, name |-> "reader",
      permissions |-> <<[id |-> <<"permission", "read">>, scope_name |-> "read"]>>],
     [id |-> <<"role", "writer">>, name |-> "writer",
      permissions |-> <<[id |-> <<"permission", "read">>, scope_name |-> "read"],
                        [id |-> <<"permission", "write">>, scope_name |-> "write"]>>]}

OtherTables ==
    <<now, utc_offset, users, profiles, rbac, tokenStore, draws, minted, revoked,
      inflight>>

HasPermission(permission) ==
    /\ last' = [op |-> "has_permission", permission |-> permission,
                res |-> Ok(has_permission(domain_user, permission))]
    /\ UNCHANGED <<domain_user, OtherTables>>

AddRole(role) ==
    /\ domain_user' = add_role(domain_user, role)
    /\ last' = [op |-> "add_role", role |-> role, res |-> Ok(None)]
    /\ UNCHANGED OtherTables

RemoveRole(role) ==
    /\ LET c == remove_role(domain_user, role)
       IN  /\ domain_user' = c.user
           /\ last' = [op |-> "remove_role", role |-> role, res |-> c.res]
    /\ UNCHANGED OtherTables

AddProhibitedPermission(permission) ==
    /\ domain_user' = add_prohibited_permission(domain_user, permission)
    /\ last' = [op |-> "add_prohibited_permission", permission |-> permission,
                res |-> Ok(None)]
    /\ UNCHANGED OtherTables

RemoveProhibitedPermission(permission) ==
    /\ domain_user' = remove_prohibited_permission(domain_user, permission)
    /\ last' = [op |-> "remove_prohibited_permission", permission |-> permission,
                res |-> Ok(None)]
    /\ UNCHANGED OtherTables

\* ------------------------------------------------------ users.core.users
\* the characters of the passwords that are tried
Chars(password) ==
    CASE password = "Admin@123" -> <<"A", "d", "m", "i", "n", "@", "1", "2", "3">>
      [] password = "Wrong@123" -> <<"W", "r", "o", "n", "g", "@", "1", "2", "3">>
      [] password = "Fresh@456" -> <<"F", "r", "e", "s", "h", "@", "4", "5", "6">>
      [] password = "weakpass" -> <<"w", "e", "a", "k", "p", "a", "s", "s">>
      [] password = "Ab@1" -> <<"A", "b", "@", "1">>

\* User.check_password_strength
check_password_strength(password) ==
    LET chars == Chars(password)
        isupper(c) == c \in {"A", "W", "F"}
        isdigit(c) == c \in {"1", "2", "3", "4", "5", "6"}
        islower(c) == c \in {"d", "m", "i", "n", "r", "o", "g", "e", "s", "h", "w",
                             "a", "k", "p", "b"}
        special(c) == c \in {"!", "@", "#", "$", "%", "^", "&", "*", "(", ")", "-",
                             "_", "=", "+", "[", "]", "{", "}", "|", ";", ":", ",",
                             ".", "<", ">", "?", "/", "~"}
    IN  IF Len(chars) < 8
        THEN Raise("ValueError", "Password must be at least 8 characters long.")
        ELSE IF ~\E k \in 1..Len(chars) : isupper(chars[k])
        THEN Raise("ValueError",
                   "Password must contain at least one uppercase letter.")
        ELSE IF ~\E k \in 1..Len(chars) : isdigit(chars[k])
        THEN Raise("ValueError", "Password must contain at least one digit.")
        ELSE IF ~\E k \in 1..Len(chars) : special(chars[k])
        THEN Raise("ValueError",
                   "Password must contain at least one special character.")
        ELSE IF ~\E k \in 1..Len(chars) : islower(chars[k])
        THEN Raise("ValueError",
                   "Password must contain at least one lowercase letter.")
        ELSE IF Len(chars) > 128
        THEN Raise("ValueError", "Password must be at most 128 characters long.")
        ELSE Ok(password)

\* User.set_password with the salt gensalt() drew
set_password(user, password, salt) ==
    LET checked == check_password_strength(password)
    IN  IF ~checked.ok THEN [user |-> user, res |-> checked]
        ELSE [user |-> [user EXCEPT !.password_hash = hashpw(checked.val, salt)],
              res |-> Ok(None)]

\* User.assign_role: the role is appended
assign_role(user, role) ==
    [user EXCEPT !.roles = Append(@, [user_id |-> user.id, role |-> role])]

\* User.remove_role of users.core.users.domain: every entry of the role goes
user_remove_role(user, role) ==
    [user EXCEPT !.roles = SelectSeq(@, LAMBDA r : r.role # role)]

\* UserRegister.user: the password is passed as the password_hash
UserRegister_user(input, id) ==
    [id |-> id, email |-> input.email, password_hash |-> [str |-> input.password],
     roles |-> <<>>]

\* the users and profiles tables as one value
UDb == [users |-> users, profiles |-> profiles]

\* UserRepositoryOnSQLA.save_user: a new UserORM is built from
\* user.model_dump() and added to the session.  model_dump() turns the roles
\* into dicts, which the roles relationship of UserORM does not accept, and
\* session.add of a new object is an INSERT, which the primary key and the
\* unique email reject for a row that is already there.
save_user(udb, user) ==
    IF user.roles # <<>>
    THEN [udb |-> udb,
          res |-> Raise("AttributeError",
                        "'dict' object has no attribute '_sa_instance_state'")]
    ELSE IF \E u \in udb.users : u.id = user.id \/ u.email = user.email
    THEN [udb |-> udb, res |-> Raise("IntegrityError", "users")]
    ELSE [udb |-> [udb EXCEPT !.users = @ \cup
                      {[id |-> user.id, email |-> user.email,
                        password_hash |-> user.password_hash,
                        roles |-> {}, deleted_at |-> None]}],
          res |-> Ok(None)]

\* UserRepositoryOnSQLA.save_profile: likewise an INSERT
save_profile(udb, profile) ==
    IF \E q \in udb.profiles : q.user_id = profile.user_id \/ q.email = profile.email
    THEN [udb |-> udb, res |-> Raise("IntegrityError", "profiles")]
    ELSE [udb |-> [udb EXCEPT !.profiles = @ \cup
                      {[user_id |-> profile.user_id, email |-> profile.email,
                        deleted_at |-> None]}],
          res |-> Ok(None)]

\* session.get(Model, id) where id is the UserId or RoleId object and not
\* its string: whether the driver can bind the object as the key (bound) is
\* not decided by this code
session_get(rows, key, id, bound) ==
    IF ~bound THEN Raise("DBAPIError", "invalid input for query argument")
    ELSE Ok(first({r \in rows : r[key] = id}))

\* UserRepositoryOnSQLA.find_default_role: the role named user; scalar_one
\* raises when there is none
find_default_role(db) ==
    LET found == {r \in db.roles : r.name = "user"}
    IN  IF found = {} THEN Raise("NoResultFound", "No row was found")
        ELSE Ok(LET r == CHOOSE r \in found : TRUE
                IN  [id |-> r.id, name |-> r.name,
                     permissions |-> map_to_domain(db, r).permissions])

\* UserRepositoryOnSQLA.find_role_by_id
find_role_by_id(db, role_id, bound) ==
    LET result == session_get(db.roles, "id", role_id, bound)
    IN  IF ~result.ok \/ result.val = None THEN result
        ELSE Ok([id |-> result.val.id, name |-> result.val.name,
                 permissions |-> map_to_domain(db, result.val).permissions])

\* UserRepositoryOnSQLA.delete_user: SoftDeleteMixin.soft_delete keeps the row
\* and gives it a deleted_at
delete_user(udb, user_id, bound) ==
    LET result == session_get(udb.users, "id", user_id, bound)
    IN  IF ~result.ok THEN [udb |-> udb, res |-> result]
        ELSE IF result.val = None THEN [udb |-> udb, res |-> Ok(None)]
        ELSE [udb |-> [udb EXCEPT !.users =
                          (@ \ {result.val})
                          \cup {[result.val EXCEPT !.deleted_at = [at |-> now]]}],
              res |-> Ok(None)]

\* UserRepositoryOnSQLA.delete_profile, a soft delete as well
delete_profile(udb, user_id, bound) ==
    LET result == session_get(udb.profiles, "user_id", user_id, bound)
    IN  IF ~result.ok THEN [udb |-> udb, res |-> result]
        ELSE IF result.val = None THEN [udb |-> udb, res |-> Ok(None)]
        ELSE [udb |-> [udb EXCEPT !.profiles =
                          (@ \ {result.val})
                          \cup {[result.val EXCEPT !.deleted_at = [at |-> now]]}],
              res |-> Ok(None)]

\* the loop of create_user and assign_roles: each role that is found is
\* assigned; an error of the lookup ends the call
RECURSIVE assign_found(_, _, _, _)
assign_found(user, db, role_ids, bound) ==
    IF role_ids = <<>> THEN Ok(user)
    ELSE LET role == find_role_by_id(db, Head(role_ids), bound)
         IN  IF ~role.ok THEN role
             ELSE assign_found(IF role.val = None THEN user
                                ELSE assign_role(user, role.val),
                               db, Tail(role_ids), bound)

\* the loop of remove_roles
RECURSIVE remove_found(_, _, _, _)
remove_found(user, db, role_ids, bound) ==
    IF role_ids = <<>> THEN Ok(user)
    ELSE LET role == find_role_by_id(db, Head(role_ids), bound)
         IN  IF ~role.ok THEN role
             ELSE remove_found(IF role.val = None THEN user
                                ELSE user_remove_role(user, role.val),
                               db, Tail(role_ids), bound)

\* a service call's outcome: the tables, the result, and the User objects
\* it handed to save_user
Outcome(udb, res, saved) == [udb |-> udb, res |-> res, saved |-> saved]

\* save_user then save_profile, each with its own commit
save_user_and_profile(udb, user, profile) ==
    LET u == save_user(udb, user)
    IN  IF ~u.res.ok THEN Outcome(u.udb, u.res, <<user>>)
        ELSE LET q == save_profile(u.udb, profile)
             IN  Outcome(q.udb, q.res, <<user>>)

\* UserServices.register_user
register_user(udb, db, input, id) ==
    LET role == find_default_role(db)
    IN  IF ~role.ok THEN Outcome(udb, role, <<>>)
        ELSE save_user_and_profile(udb,
                 assign_role(UserRegister_user(input, id), role.val),
                 [user_id |-> id, email |-> input.email])

\* UserServices.create_user
create_user(udb, db, input, id, bound) ==
    LET user == assign_found(UserRegister_user(input, id), db, input.role_ids, bound)
    IN  IF ~user.ok THEN Outcome(udb, user, <<>>)
        ELSE save_user_and_profile(udb, user.val, [user_id |-> id, email |-> input.email])

\* UserServices.change_password
change_password(udb, db, user_id, input, salt) ==
    LET user == find_user_by_id(db, user_id)
    IN  IF user = None
        THEN Outcome(udb, Raise("ValueError", "NOT FOUND: User not found."), <<>>)
        ELSE LET verified == bcrypt_checkpw(input.password, user.password_hash)
             IN  IF ~verified.ok THEN Outcome(udb, verified, <<>>)
                 ELSE IF ~verified.val
                 THEN Outcome(udb, Raise("ValueError", "INVALID: Incorrect password."),
                              <<>>)
                 ELSE LET set == set_password(user, input.new_password, salt)
                      IN  IF ~set.res.ok THEN Outcome(udb, set.res, <<>>)
                          ELSE LET u == save_user(udb, set.user)
                               IN  Outcome(u.udb, u.res, <<set.user>>)

\* UserServices.assign_roles
assign_roles(udb, db, user_id, role_ids, bound) ==
    LET user == find_user_by_id(db, user_id)
    IN  IF user = None
        THEN Outcome(udb, Raise("ValueError", "NOT FOUND: User not found."), <<>>)
        ELSE LET assigned == assign_found(user, db, role_ids, bound)
             IN  IF ~assigned.ok THEN Outcome(udb, assigned, <<>>)
                 ELSE LET u == save_user(udb, assigned.val)
                      IN  Outcome(u.udb, u.res, <<assigned.val>>)

\* UserServices.remove_roles
remove_roles(udb, db, user_id, role_ids, bound) ==
    LET user == find_user_by_id(db, user_id)
    IN  IF user = None
        THEN Outcome(udb, Raise("ValueError", "NOT FOUND: User not found."), <<>>)
        ELSE LET removed == remove_found(user, db, role_ids, bound)
             IN  IF ~removed.ok THEN Outcome(udb, removed, <<>>)
                 ELSE LET u == save_user(udb, removed.val)
                      IN  Outcome(u.udb, u.res, <<removed.val>>)

\* UserServices.delete_user
users_delete_user(udb, db, user_id, bound) ==
    LET user == find_user_by_id(db, user_id)
    IN  IF user = None
        THEN Outcome(udb, Raise("ValueError", "NOT FOUND: User not found."), <<>>)
        ELSE LET u == delete_user(udb, user.id, bound)
             IN  IF ~u.res.ok THEN Outcome(u.udb, u.res, <<>>)
                 ELSE LET q == delete_profile(u.udb, user.id, bound)
                      IN  Outcome(q.udb, q.res, <<>>)

\* ids uuid4 gives to new users
NewUserId == IF Cardinality(users) = 2 THEN "u3" ELSE "u4"
AllUserIds == {u.id : u \in users} \cup {UnknownUserId}

\* role ids an admin names: none, a role, a role and an id of no role
RoleIdLists == {<<>>, <<UserRoleId>>, <<UserRoleId, UnknownRoleId>>}

\* the commit of a UserServices call
CommitUsers(op, c) ==
    /\ users' = c.udb.users
    /\ profiles' = c.udb.profiles
    /\ last' = op @@ [res |-> c.res, saved |-> c.saved]
    /\ UNCHANGED <<now, utc_offset, domain_user, rbac, tokenStore, draws, minted,
                   revoked, inflight>>

RegisterUser(input) ==
    CommitUsers([op |-> "register_user", input |-> input],
                register_user(UDb, Db, input, NewUserId))

CreateUser(input, bound) ==
    CommitUsers([op |-> "create_user", input |-> input],
                create_user(UDb, Db, input, NewUserId, bound))

ChangePassword(user_id, input, salt) ==
    CommitUsers([op |-> "change_password", user_id |-> user_id, input |-> input],
                change_password(UDb, Db, user_id, input, salt))

AssignRoles(user_id, role_ids, bound) ==
    CommitUsers([op |-> "assign_roles", user_id |-> user_id, role_ids |-> role_ids],
                assign_roles(UDb, Db, user_id, role_ids, bound))

RemoveRoles(user_id, role_ids, bound) ==
    CommitUsers([op |-> "remove_roles", user_id |-> user_id, role_ids |-> role_ids],
                remove_roles(UDb, Db, user_id, role_ids, bound))

DeleteUser(user_id, bound) ==
    CommitUsers([op |-> "delete_user", user_id |-> user_id],
                users_delete_user(UDb, Db, user_id, bound))

\* ------------------------------------------------------------ specification
Next ==
    \/ Tick
    \/ \E u \in TokenUsers, t \in ValidFroms, ok \in BOOLEAN :
          CreateRefreshToken(u, t, ok)
    \/ \E u \in TokenUsers, r \in RefreshTokens, t \in ValidFroms :
          CreateAccessToken(u, r, t)
    \/ \E e \in Emails, p \in Passwords, t \in ValidFroms, ok \in BOOLEAN :
          CreateTokenPair(e, p, t, ok)
    \/ \E s \in RefreshTokenStrings : GetUserFromRefreshToken(s)
    \/ \E s \in RefreshTokenStrings : GetRefreshToken(s)
    \/ \E a \in AccessTokenStrings : GetUserFromAccessToken(a)
    \/ \E i \in Reqs, s \in RefreshTokenStrings, ok \in BOOLEAN : RevokeFindUser(i, s, ok)
    \/ \E i \in Reqs, ok \in BOOLEAN : RevokeRemove(i, ok)
    \/ \E i \in Reqs, s \in RefreshTokenStrings : RefreshGetToken(i, s)
    \/ \E i \in Reqs : RefreshGetUser(i)
    \/ \E i \in Reqs : RefreshMint(i)
    \/ \E rs \in RequiredScopes, a \in AccessTokenStrings :
          HasAnyScope(rs, Bearer(a), 401)
    \/ \E rs \in RequiredScopes, st \in BearerStatuses :
          HasAnyScope(rs, NoCredentials, st)
    \/ \E input \in RoleInputs, before \in Befores :
          CreateRole(input, before)
    \/ \E id \in RoleIds : DeleteRole(id)
    \/ \E id \in RoleIds, perm \in PermissionValues : AssignPermissionToRole(id, perm)
    \/ \E id \in RoleIds, perm \in PermissionValues : RemovePermissionFromRole(id, perm)
    \/ \E id \in UserIds \cup {UnknownUserId} : GetPermissions(id)
    \/ \E perm \in DomainPermissions : HasPermission(perm)
    \/ \E role \in DomainRoles : AddRole(role)
    \/ \E role \in DomainRoles : RemoveRole(role)
    \/ \E perm \in DomainPermissions : AddProhibitedPermission(perm)
    \/ \E perm \in DomainPermissions : RemoveProhibitedPermission(perm)
    \/ \E e \in {"nobody@app.com", "bob@app.com"} :
          RegisterUser([email |-> e, password |-> "Admin@123"])
    \/ \E e \in {"nobody@app.com", "bob@app.com"}, ids \in RoleIdLists,
          bound \in BOOLEAN :
          CreateUser([email |-> e, password |-> "Admin@123", role_ids |-> ids],
                     bound)
    \/ \E id \in AllUserIds, p \in Passwords,
          new \in {"Fresh@456", "weakpass", "Ab@1"} :
          ChangePassword(id, [password |-> p, new_password |-> new], "s7")
    \/ \E id \in AllUserIds, ids \in RoleIdLists, bound \in BOOLEAN :
          AssignRoles(id, ids, bound)
    \/ \E id \in AllUserIds, ids \in RoleIdLists, bound \in BOOLEAN :
          RemoveRoles(id, ids, bound)
    \/ \E id \in AllUserIds, bound \in BOOLEAN : DeleteUser(id, bound)
    \/ \E i \in Reqs, id \in RoleIds, perm \in PermissionValues :
          AssignFind(i, id, perm)
    \/ \E i \in Reqs : AssignEnsure(i)
    \/ \E i \in Reqs : AssignSave(i)
    \/ \E i \in Reqs, id \in RoleIds, perm \in PermissionValues :
          RemoveFind(i, id, perm)
    \/ \E i \in Reqs : RemoveSave(i)
    \/ \E i \in Reqs : RemoveUses(i)
    \/ \E i \in Reqs : RemoveDelete(i)
    \/ \E i \in Reqs, id \in RoleIds : DeleteFind(i, id)
    \/ \E i \in Reqs : DeleteDelete(i)
    \/ \E i \in Reqs, input \in RoleInputs : CreateEnsure(i, input)
    \/ \E i \in Reqs : CreateSave(i)

Spec == Init /\ [][Next]_vars

\* the start on a server whose local time is UTC
InitUTC == Init /\ utc_offset = 0

\* The claims are checked on parts of Next.  Each part keeps every
\* action that writes the variables its claims read.

\* issuing and validating tokens
SpecTokens ==
    /\ InitUTC
    /\ [][
         \/ Tick
         \/ \E u \in TokenUsers, t \in ValidFroms, ok \in BOOLEAN :
               CreateRefreshToken(u, t, ok)
         \/ \E u \in TokenUsers, r \in RefreshTokens, t \in ValidFroms :
               CreateAccessToken(u, r, t)
         \/ \E e \in Emails, p \in Passwords, ok \in BOOLEAN :
               CreateTokenPair(e, p, now, ok)
         \/ \E a \in minted \cup ServiceCraftedTokens : GetUserFromAccessToken(a)
       ]_vars

\* revocation and the refresh flow, as concurrent requests: any number of
\* revocations up to MaxReqs and one refresh in flight; none of these
\* operations reads the clock
SpecRevoke ==
    /\ InitUTC
    /\ [][
         \/ \E u \in users : CreateTokenPair(u.email, "Admin@123", now, TRUE)
         \/ \E s \in RefreshTokenStrings : GetUserFromRefreshToken(s)
         \/ \E s \in RefreshTokenStrings : GetRefreshToken(s)
         \/ \E i \in Reqs, s \in RefreshTokenStrings, ok \in BOOLEAN : RevokeFindUser(i, s, ok)
         \/ \E i \in Reqs, ok \in BOOLEAN : RevokeRemove(i, ok)
         \/ \E s \in RefreshTokenStrings : RefreshGetToken(1, s)
         \/ RefreshGetUser(1)
         \/ RefreshMint(1)
       ]_vars

\* access tokens that outlive their refresh token
SpecStale ==
    /\ InitUTC
    /\ [][
         \/ Tick
         \/ \E u \in users : CreateTokenPair(u.email, "Admin@123", now, TRUE)
         \/ \E s \in RefreshTokenStrings, ok \in BOOLEAN : RevokeFindUser(1, s, ok)
         \/ \E ok \in BOOLEAN : RevokeRemove(1, ok)
         \/ \E a \in minted \cup ServiceCraftedTokens : GetUserFromAccessToken(a)
       ]_vars

\* the scope gate
SpecGate ==
    /\ InitUTC
    /\ [][
         \/ Tick
         \/ \E e \in Emails, p \in Passwords :
               CreateTokenPair(e, p, now, TRUE)
         \/ \E rs \in RequiredScopes, a \in AccessTokenStrings :
               HasAnyScope(rs, Bearer(a), 401)
         \/ \E rs \in RequiredScopes, st \in BearerStatuses :
               HasAnyScope(rs, NoCredentials, st)
       ]_vars

\* the roles and their permissions
SpecRoles ==
    /\ InitUTC
    /\ [][
         \/ \E input \in RoleInputs, before \in Befores :
               CreateRole(input, before)
         \/ \E id \in RoleIds : DeleteRole(id)
         \/ \E id \in RoleIds, perm \in PermissionValues : AssignPermissionToRole(id, perm)
         \/ \E id \in RoleIds, perm \in PermissionValues : RemovePermissionFromRole(id, perm)
         \/ \E id \in UserIds \cup {UnknownUserId} : GetPermissions(id)
       ]_vars

\* tokens issued and used while the roles change: one refresh in flight,
\* the permissions of the role user changing, and the gate on the issued
\* tokens
SpecScopes ==
    /\ InitUTC
    /\ [][
         \/ \E u \in users : CreateTokenPair(u.email, "Admin@123", now, TRUE)
         \/ \E s \in RefreshTokenStrings : RefreshGetToken(1, s)
         \/ RefreshGetUser(1)
         \/ RefreshMint(1)
         \/ \E perm \in PermissionValues : AssignPermissionToRole(UserRoleId, perm)
         \/ \E perm \in PermissionValues : RemovePermissionFromRole(UserRoleId, perm)
         \/ \E rs \in RequiredScopes, a \in minted : HasAnyScope(rs, Bearer(a), 401)
       ]_vars

\* the user of users.core.domain, its roles and its prohibitions
SpecDomainUser ==
    /\ InitUTC
    /\ [][
         \/ \E perm \in DomainPermissions : HasPermission(perm)
         \/ \E role \in DomainRoles : AddRole(role)
         \/ \E role \in DomainRoles : RemoveRole(role)
         \/ \E perm \in DomainPermissions : AddProhibitedPermission(perm)
         \/ \E perm \in DomainPermissions : RemoveProhibitedPermission(perm)
       ]_vars

\* the user services, and signing in
SpecUsers ==
    /\ InitUTC
    /\ [][
         \/ \E e \in {"nobody@app.com", "bob@app.com"} :
               RegisterUser([email |-> e, password |-> "Admin@123"])
         \/ \E e \in {"nobody@app.com", "bob@app.com"}, ids \in RoleIdLists,
               bound \in BOOLEAN :
               CreateUser([email |-> e, password |-> "Admin@123", role_ids |-> ids],
                          bound)
         \/ \E id \in AllUserIds, p \in Passwords,
               new \in {"Fresh@456", "weakpass", "Ab@1"} :
               ChangePassword(id, [password |-> p, new_password |-> new], "s7")
         \/ \E id \in AllUserIds, ids \in RoleIdLists, bound \in BOOLEAN :
               AssignRoles(id, ids, bound)
         \/ \E id \in AllUserIds, ids \in RoleIdLists, bound \in BOOLEAN :
               RemoveRoles(id, ids, bound)
         \/ \E e \in Emails, p \in Passwords : CreateTokenPair(e, p, now, TRUE)
       ]_vars

\* deleting users who hold tokens
SpecDeleted ==
    /\ InitUTC
    /\ [][
         \/ \E e \in Emails, p \in Passwords : CreateTokenPair(e, p, now, TRUE)
         \/ \E id \in AllUserIds, bound \in BOOLEAN : DeleteUser(id, bound)
         \/ \E s \in RefreshTokenStrings : GetUserFromRefreshToken(s)
         \/ \E a \in minted : GetUserFromAccessToken(a)
       ]_vars

\* RoleServices calls of two concurrent requests
SpecRace ==
    /\ InitUTC
    /\ [][
         \/ \E i \in {1, 2}, id \in RoleIds,
               perm \in {Perm("users", "write"), Perm("users", "")} :
               AssignFind(i, id, perm)
         \/ \E i \in {1, 2} : AssignEnsure(i)
         \/ \E i \in {1, 2} : AssignSave(i)
         \/ \E i \in {1, 2}, id \in RoleIds,
               perm \in {Perm("users", "write"), Perm("users", "")} :
               RemoveFind(i, id, perm)
         \/ \E i \in {1, 2} : RemoveSave(i)
         \/ \E i \in {1, 2} : RemoveUses(i)
         \/ \E i \in {1, 2} : RemoveDelete(i)
         \/ \E i \in {1, 2}, id \in RoleIds : DeleteFind(i, id)
         \/ \E i \in {1, 2} : DeleteDelete(i)
         \/ \E i \in {1, 2}, input \in RoleInputs : CreateEnsure(i, input)
         \/ \E i \in {1, 2} : CreateSave(i)
       ]_vars

\* concurrent assignments only
SpecAssignRace ==
    /\ InitUTC
    /\ [][
         \/ \E i \in {1, 2}, id \in RoleIds,
               perm \in {Perm("users", "write"), Perm("users", "")} :
               AssignFind(i, id, perm)
         \/ \E i \in {1, 2} : AssignEnsure(i)
         \/ \E i \in {1, 2} : AssignSave(i)
       ]_vars

\* the refresh flow on refresh tokens of any age: valid_from is now, or an
\* instant further in the past than the refresh-token lifetime
SpecExpiry ==
    /\ InitUTC
    /\ [][
         \/ Tick
         \/ \E u \in TokenUsers, ok \in BOOLEAN,
               t \in {now, now - timedelta_days(REFRESH_TOKEN_TTL_DAYS) - 1} :
               CreateRefreshToken(u, t, ok)
         \/ \E s \in RefreshTokenStrings : GetRefreshToken(s)
         \/ \E s \in RefreshTokenStrings : RefreshGetToken(1, s)
         \/ RefreshGetUser(1)
         \/ RefreshMint(1)
       ]_vars


\* ============================================================ claims
CorrectlySigned(t) == t.wellformed /\ t.key = SECRET_KEY /\ t.alg = ALGORITHM

IsExpiredError(r) ==
    /\ ~r.ok
    /\ r.err = "JWTError"
    /\ r.msg \in {"Signature has expired.", "Access token has expired"}

StoredIds == {u.id : u \in users}

\* ------------------------------------------------------------ C1
\* the round trip, taken in the state create_refresh_token leaves behind
RoundTrip ==
    get_user_from_access_token(
        create_access_token(last.user, last.res.val, last.valid_from).token)

\* C1, as stated: for any TokenUser U and valid_from T, once
\* create_refresh_token(U, T) has returned a refresh token R,
\* get_user_from_access_token(create_access_token(U, R, T).token) returns a
\* user whose id is U.id.
C1_RoundTripAnyValidFrom ==
    (last.op = "create_refresh_token" /\ last.res.ok)
        => (RoundTrip.ok /\ RoundTrip.val.id = last.user.id)

\* C1, amended: the same round trip returns a user whose id is U.id whenever
\* the access token has not expired at the time of the lookup, that is,
\* whenever T + ACCESS_TOKEN_TTL_SECONDS, cut to a whole second, is not
\* before the current time.
C1_RoundTrip ==
    (/\ last.op = "create_refresh_token"
     /\ last.res.ok
     /\ now <= fromtimestamp(timegm(last.valid_from
                    + timedelta_seconds(ACCESS_TOKEN_TTL_SECONDS))))
        => (RoundTrip.ok /\ RoundTrip.val.id = last.user.id)

\* a second refresh token has just been created, for another user than the
\* first, and the round trip on it returns its owner
C1_Witness ==
    /\ last.op = "create_refresh_token"
    /\ last.res.ok
    /\ \E r \in tokenStore : r.user_id # last.user.id
    /\ RoundTrip.ok
    /\ RoundTrip.val.id = last.user.id

\* ------------------------------------------------------------ C2
\* C2: get_user_from_access_token on a correctly signed token fails with the
\* expired-token error when exp = now or exp < now, and returns the user
\* when exp is one second after now and rtk resolves to a user.
C2_ExpiryBoundary ==
    (/\ last.op = "get_user_from_access_token"
     /\ CorrectlySigned(last.access_token)
     /\ "exp" \in DOMAIN last.access_token.claims
     /\ "rtk" \in DOMAIN last.access_token.claims)
        => LET exp == fromtimestamp(last.access_token.claims.exp)
               rtk == last.access_token.claims.rtk
           IN  /\ exp <= now => IsExpiredError(last.res)
               /\ (/\ exp = now + TicksPerSecond
                   /\ \E r \in tokenStore : r.id = rtk /\ r.user_id \in StoredIds)
                      => last.res.ok

\* ------------------------------------------------------------ C3
BadCredentials(email, password) ==
    ~ \E u \in users : u.email = email /\ checkpw(password, u.password_hash)

january_2025(instant) ==
    LET seconds == timegm(instant)
    IN  [day |-> 1 + seconds \div SecondsPerDay,
         hour |-> (seconds % SecondsPerDay) \div 3600,
         minute |-> (seconds % 3600) \div 60,
         second |-> seconds % 60,
         fraction |-> instant % TicksPerSecond]

RefreshExpirationIsValidFromPlusDays ==
    (last.op = "create_refresh_token" /\ last.res.ok)
        => /\ last.res.val.expiration
                = last.valid_from + timedelta_days(REFRESH_TOKEN_TTL_DAYS)
           /\ last.valid_from = 0
                => january_2025(last.res.val.expiration)
                     = [day |-> 8, hour |-> 0, minute |-> 0, second |-> 0,
                        fraction |-> 0]

AccessExpirationIsValidFromPlusSeconds ==
    last.op = "create_access_token"
        => /\ last.res.val.expiration
                = last.valid_from + timedelta_seconds(ACCESS_TOKEN_TTL_SECONDS)
           /\ last.valid_from = 0
                => january_2025(last.res.val.expiration)
                     = [day |-> 1, hour |-> 1, minute |-> 0, second |-> 0,
                        fraction |-> 0]

\* C9, as stated: create_refresh_token returns expiration = T + 7 days and
\* create_access_token returns expiration = T + 3600 seconds, the signed exp
\* claim being equal to that returned expiration; for T =
\* 2025-01-01T00:00:00Z these are 2025-01-08T00:00:00Z and
\* 2025-01-01T01:00:00Z.
C9_ExpClaimEqualsExpiration ==
    /\ RefreshExpirationIsValidFromPlusDays
    /\ AccessExpirationIsValidFromPlusSeconds
    /\ last.op = "create_access_token"
         => fromtimestamp(last.res.val.token.claims.exp) = last.res.val.expiration

\* C9, amended: the returned expirations are as stated, and the signed exp
\* claim is the returned expiration cut down to a whole second: it equals
\* the returned expiration exactly when valid_from has no fraction of a
\* second, and is less than one second before it otherwise.
C9_Expirations ==
    /\ RefreshExpirationIsValidFromPlusDays
    /\ AccessExpirationIsValidFromPlusSeconds
    /\ last.op = "create_access_token"
         => LET exp == fromtimestamp(last.res.val.token.claims.exp)
                expiration == last.res.val.expiration
            IN  /\ exp <= expiration
                /\ expiration < exp + TicksPerSecond
                /\ last.valid_from % TicksPerSecond = 0 => exp = expiration

\* an access token made for a valid_from with a fraction of a second: its
\* exp claim is earlier than the expiration returned with it
C9_Witness ==
    /\ last.op = "create_access_token"
    /\ last.valid_from % TicksPerSecond # 0
    /\ fromtimestamp(last.res.val.token.claims.exp) < last.res.val.expiration
    /\ last.res.val.expiration
         = last.valid_from + timedelta_seconds(ACCESS_TOKEN_TTL_SECONDS)

\* ------------------------------------------------------------ C10
\* C10: when the store write fails (nothing is persisted),
\* create_refresh_token raises and returns no refresh token, and
\* create_token_pair raises without minting an access token or returning a
\* pair; whenever either returns, the refresh token it returns is in the
\* store.
C10_FailedWriteIsNotSuccess ==
    [][/\ last'.op = "create_refresh_token"
          => /\ last'.res.ok => /\ last'.res.val \notin tokenStore
                                /\ tokenStore' = tokenStore \cup {last'.res.val}
             /\ tokenStore' = tokenStore
                   => (~last'.res.ok /\ last'.res.err = "Exception")
       /\ last'.op = "create_token_pair"
          => /\ last'.res.ok => /\ last'.res.val[1] \notin tokenStore
                                /\ tokenStore' = tokenStore \cup {last'.res.val[1]}
                                /\ last'.res.val[2].token.claims.rtk
                                      = last'.res.val[1].id
             /\ tokenStore' = tokenStore
                   => (~last'.res.ok /\ minted' = minted)]_vars

\* create_token_pair with the right password, failing on the store write
C10_Witness ==
    /\ last.op = "create_token_pair"
    /\ ~BadCredentials(last.email, last.password)
    /\ ~last.res.ok
    /\ last.res.err = "Exception"
    /\ draws > Cardinality(tokenStore)


\* ---------------------------------------------------------------- C4
\* the messages of the one error kind revoke_refresh_token raises
RevokeErrorMessages ==
    {"Error revoking refresh token: " \o m :
        m \in {"DB error", "Refresh token not found",
               "Error removing refresh token", "Refresh token not found for user"}}

RevokedStrings == {r.token : r \in revoked}

\* C4: revoke_refresh_token returns successfully only if this call removed
\* a stored record of the token; on a string unknown to the store it fails;
\* every failure is a ValueError with the revoke message; and a token that
\* an earlier call has removed is never revoked successfully again, so of
\* two concurrent calls on a stored token at most one succeeds.
C4_RevokeNeverSilent ==
    [][last'.op = "revoke_refresh_token" =>
        LET t    == last'.refresh_token
            rows == {r \in tokenStore : r.token = t}
        IN  /\ last'.res.ok =>
                 /\ rows # {}
                 /\ rows \cap tokenStore' = {}
                 /\ t \notin RevokedStrings
            /\ rows = {} => ~last'.res.ok
            /\ ~last'.res.ok =>
                 /\ last'.res.err = "ValueError"
                 /\ last'.res.msg \in RevokeErrorMessages]_vars

\* two calls passed the owner lookup on the same token; the first removed
\* the record and the second has just failed on the delete
C4_Witness ==
    /\ last.op = "revoke_refresh_token"
    /\ last.refresh_token \in RevokedStrings
    /\ ~last.res.ok
    /\ last.res.msg = "Error revoking refresh token: Refresh token not found for user"

\* ---------------------------------------------------------------- C5
NotFoundByToken == Raise("ValueError", "Token not found")
NotFoundUserByToken == Raise("ValueError", "Not found user by refresh token")

\* a revoked token is found by neither lookup; a stored one by both
LookupsFollowStore ==
    /\ \A r \in revoked :
          /\ get_refresh_token(r.token) = NotFoundByToken
          /\ get_user_from_refresh_token(r.token) = NotFoundUserByToken
    /\ \A q \in tokenStore :
          /\ get_refresh_token(q.token) = Ok(q)
          /\ get_user_from_refresh_token(q.token).ok
          /\ get_user_from_refresh_token(q.token).val.id = q.user_id

\* a successful revoke takes exactly the record of its token out of the store
RevokeRemovesExactlyOne ==
    (last'.op = "revoke_refresh_token" /\ last'.res.ok) =>
        \E r \in tokenStore :
            /\ r.token = last'.refresh_token
            /\ tokenStore' = tokenStore \ {r}

\* a refresh that begins on a revoked token ends at its first lookup with an
\* error, and mints nothing
RefreshStopsOnRevoked ==
    \A i \in Reqs :
        inflight[i] = Idle =>
            /\ inflight'[i].op = "refresh" =>
                  inflight'[i].refresh_token \notin RevokedStrings
            /\ (last'.op = "refresh_access_token"
                    /\ last'.refresh_token \in RevokedStrings
                    /\ inflight' = inflight) =>
                  /\ ~last'.res.ok
                  /\ minted' = minted

\* C5: a successful revoke_refresh_token(t) removes exactly the record of
\* t; from then on get_refresh_token(t) and get_user_from_refresh_token(t)
\* fail with not-found and a refresh begun on t mints nothing, while every
\* other stored refresh token, of the same or another user, stays stored and
\* is found by both lookups.
C5_RevokeExactlyThatRecord ==
    /\ []LookupsFollowStore
    /\ [][RevokeRemovesExactlyOne /\ RefreshStopsOnRevoked]_vars

\* a revoke has just succeeded while its owner holds another stored token
C5_Witness ==
    /\ last.op = "revoke_refresh_token"
    /\ last.res.ok
    /\ \E r \in revoked, q \in tokenStore :
          /\ r.token = last.refresh_token
          /\ q.user_id = r.user_id
          /\ get_refresh_token(q.token) = Ok(q)

\* ---------------------------------------------------------------- C6
\* access tokens bound to a refresh-token record: the sampled and crafted
\* ones, and one issued now to each stored user
AccessTokensOf(r) ==
    {a \in minted \cup ServiceCraftedTokens
           \cup {create_access_token(map_to_token_user(u), r, now).token : u \in users} :
        /\ CorrectlySigned(a)
        /\ "rtk" \in DOMAIN a.claims
        /\ a.claims.rtk = r.id}

Unexpired(a) == "exp" \in DOMAIN a.claims /\ fromtimestamp(a.claims.exp) > now

UserNotFound == Raise("ValueError", "User not found")

\* C6: once revoke_refresh_token(t) has succeeded, get_user_from_access_token
\* fails with the not-found error for every correctly signed access token
\* whose rtk is the id of t and whose exp is still in the future.
C6_RevokedRtkIsNotFound ==
    \A r \in revoked : \A a \in AccessTokensOf(r) :
        Unexpired(a) => get_user_from_access_token(a) = UserNotFound

\* a token pair was issued, its refresh token revoked, and the lookup of the
\* still unexpired access token has just failed, while its owner holds another
\* stored refresh token
C6_Witness ==
    /\ last.op = "get_user_from_access_token"
    /\ last.access_token \in minted
    /\ Unexpired(last.access_token)
    /\ last.res = UserNotFound
    /\ \E r \in revoked :
          /\ last.access_token \in AccessTokensOf(r)
          /\ \E q \in tokenStore : q.user_id = r.user_id


\* ---------------------------------------------------------------- C7
\* what a request presents to the gate
Claims(request) == request.token.claims

Granted(request) ==
    IF "scopes" \in DOMAIN Claims(request)
    THEN Claims(request).scopes \cap UserScope ELSE {}

\* the token is rejected as a token: malformed, badly signed, or expired
\* by the whole-second clock of the JWT exp claim
InvalidToken(t) ==
    \/ ~CorrectlySigned(t)
    \/ "exp" \in DOMAIN t.claims /\ t.claims.exp < timegm(now)

\* the request reaches the scope check: a valid token naming a user
Authenticated(request) ==
    /\ request.credentials
    /\ ~InvalidToken(request.token)
    /\ "sub" \in DOMAIN Claims(request)
    /\ Claims(request).sub \in UuidStrings

ScopeSets == SUBSET UserScope

\* Actor.has_any_scope is non-empty intersection, on every pair of scope sets
HasAnyScopeIsIntersection ==
    /\ \A granted \in ScopeSets, required \in ScopeSets :
          actor_has_any_scope([user_id |-> "u1", scopes |-> granted], required)
              <=> (granted \cap required # {})
    /\ \A granted \in ScopeSets :
          ~actor_has_any_scope([user_id |-> "u1", scopes |-> granted], {})
    /\ actor_has_any_scope([user_id |-> "u1", scopes |-> {"users:self"}],
                           {"users", "users:self"})
    /\ ~actor_has_any_scope([user_id |-> "u1", scopes |-> {"users:self"}],
                            {"users"})

\* C7: Actor.has_any_scope(required) is true iff granted and required scopes
\* intersect (false for an empty required set; {users:self} passes
\* {users, users:self} and fails {users}), and the gate admits an
\* authenticated request exactly when they intersect, with the actor of the
\* token.
C7_ScopeAdmissionIsOr ==
    [][last'.op = "has_any_scope" =>
        LET request  == last'.request
            required == last'.required_scopes
        IN  /\ HasAnyScopeIsIntersection
            /\ last'.res.ok => Authenticated(request)
            /\ Authenticated(request) =>
                  /\ last'.res.ok <=> (Granted(request) \cap required # {})
                  /\ last'.res.ok =>
                        last'.res.val = [user_id |-> Claims(request).sub,
                                         scopes |-> Granted(request)]]_vars

\* a token granting only users:self has just been admitted where users or
\* users:self is required
C7_Witness ==
    /\ last.op = "has_any_scope"
    /\ last.res.ok
    /\ last.request.credentials
    /\ last.request.token.claims.scopes = {"users:self"}
    /\ last.required_scopes = {"users", "users:self"}

\* ---------------------------------------------------------------- C8
\* the authentication failure: status 401, or HTTPBearer's own rejection of
\* a request without credentials
AuthenticationFailure(res) ==
    /\ ~res.ok
    /\ res.err = "HTTPException"
    /\ res.status = 401 \/ res.msg = "Not authenticated"

\* the authorization failure
AuthorizationFailure(res) ==
    /\ ~res.ok
    /\ res.err = "HTTPException"
    /\ res.status = 403
    /\ res.msg = "Insufficient scopes"

\* C8: a request with a missing, malformed, badly signed or expired token
\* ends in the authentication failure; a request with a valid token whose
\* scopes do not meet the requirement ends in the authorization failure;
\* also when the validly signed token has a missing or non-UUID sub.
C8_GateOutcomes ==
    [][last'.op = "has_any_scope" =>
        LET request  == last'.request
            required == last'.required_scopes
        IN  IF ~request.credentials \/ InvalidToken(request.token)
            THEN AuthenticationFailure(last'.res)
            ELSE (Granted(request) \cap required = {}) =>
                     AuthorizationFailure(last'.res)]_vars


\* ---------------------------------------------------------------- C14
\* the RBAC tables a step leaves
DbNext ==
    [roles |-> roles', permissions |-> permissions',
     role_permissions |-> role_permissions', rdraws |-> rdraws']

\* the role_permissions rows that link a role to a row of the permission
LinksTo(db, role_id, permission) ==
    {rp \in db.role_permissions :
        /\ rp.role_id = role_id
        /\ \E p \in permission_rows(db, permission) : rp.permission_id = p.id}

\* C14: assign_permission_to_role on a stored role returns true and leaves
\* the role holding the permission exactly once; where the store held at
\* most one record of the permission before the call, it holds exactly one
\* after it, so that a second assignment of the same permission adds
\* nothing.
C14_IdempotentAssignment ==
    [][last'.op = "assign_permission_to_role" =>
        LET id == last'.role_id
            P  == last'.permission
        IN  find_by_id(Db, id) # None =>
              /\ last'.res = Ok(TRUE)
              /\ P \in find_by_id(DbNext, id).permissions
              /\ Cardinality(LinksTo(DbNext, id, P)) = 1
              /\ Cardinality(permission_rows(Db, P)) <= 1 =>
                     Cardinality(permission_rows(DbNext, P)) = 1]_vars


\* ---------------------------------------------------------------- C15
\* the roles whose permission set holds the permission
Holders(db, permission) ==
    {r.id : r \in {r \in db.roles :
                     permission \in find_by_id(db, r.id).permissions}}

\* C15: remove_permission_from_role on a role that holds the permission
\* returns true and takes it from that role; when no other role held it,
\* no record of it is left in the permission store; when another role held
\* it, the store keeps it and every other holder still holds it.
C15_OrphanCleanup ==
    [][last'.op = "remove_permission_from_role" =>
        LET R    == last'.role_id
            P    == last'.permission
            held == Holders(Db, P)
        IN  R \in held =>
              /\ last'.res = Ok(TRUE)
              /\ R \notin Holders(DbNext, P)
              /\ held = {R} => permission_rows(DbNext, P) = {}
              /\ held # {R} => /\ permission_rows(DbNext, P) # {}
                               /\ Holders(DbNext, P) = held \ {R}]_vars

\* a removal has deleted the records of a permission no other role held
C15_Witness ==
    /\ last.op = "remove_permission_from_role"
    /\ last.res = Ok(TRUE)
    /\ permission_rows(Db, last.permission) = {}
    /\ Holders(Db, last.permission) = {}

\* ---------------------------------------------------------------- C16
\* C16: delete_role of an id no role has returns false and changes nothing;
\* of a stored role it returns true, removes exactly that role's row, and
\* leaves the permission store and every other role's permission set as
\* they were.
C16_DeleteRole ==
    [][last'.op = "delete_role" =>
        LET id == last'.role_id
        IN  IF find_by_id(Db, id) = None
            THEN /\ last'.res = Ok(FALSE)
                 /\ DbNext = Db
            ELSE /\ last'.res = Ok(TRUE)
                 /\ roles' = {r \in roles : r.id # id}
                 /\ permissions' = permissions
                 /\ \A r \in roles' :
                        find_by_id(DbNext, r.id).permissions
                            = find_by_id(Db, r.id).permissions]_vars

\* ---------------------------------------------------------------- C17
\* the text of a permission string
RECURSIVE Concat(_)
Concat(str) == IF str = <<>> THEN "" ELSE Head(str) \o Concat(Tail(str))

HasDot(str) == \E i \in 1..Len(str) : str[i] = Dot

\* the pair a string names when it is cut at its first '.'
SplitFirst(str) ==
    LET i == CHOOSE i \in 1..Len(str) :
                 str[i] = Dot /\ \A j \in 1..(i - 1) : str[j] # Dot
    IN  Perm(Concat(SubSeq(str, 1, i - 1)), Concat(SubSeq(str, i + 1, Len(str))))

\* C17: after a create_role that succeeds, one role row carries the new
\* name, its permission set is the set of pairs the input names, a
\* permission that had a record keeps exactly the records it had, and a
\* permission that had none has exactly one.
C17_CreateRolePersistsOnce ==
    [][(last'.op = "create_role" /\ last'.res.ok) =>
        LET role  == last'.res.val
            named == {SplitFirst(str) : str \in last'.input.permissions}
        IN  /\ Cardinality({r \in roles' : r.name = last'.input.name}) = 1
            /\ find_by_id(DbNext, role.id) # None
            /\ find_by_id(DbNext, role.id).permissions = named
            /\ \A P \in named :
                 IF permission_rows(Db, P) # {}
                 THEN permission_rows(DbNext, P) = permission_rows(Db, P)
                 ELSE Cardinality(permission_rows(DbNext, P)) = 1]_vars

\* ---------------------------------------------------------------- C18
\* C18: create_role cuts each permission string at its first '.': when
\* every string of the input has a '.', the call raises no ValueError, and
\* the role it returns holds, for each string, the pair of the text before
\* the first '.' and the text after it.
C18_SplitOnFirstDot ==
    [][(/\ last'.op = "create_role"
        /\ \A str \in last'.input.permissions : HasDot(str)) =>
        /\ last'.res.ok \/ last'.res.err # "ValueError"
        /\ last'.res.ok =>
             last'.res.val.permissions
                 = {SplitFirst(str) : str \in last'.input.permissions}]_vars


\* ---------------------------------------------------------------- C19
\* namespace and name joined by '.', the namespace alone for an empty name
Joined(p) == IF p.name = "" THEN p.namespace ELSE p.namespace \o "." \o p.name

\* C19: every representation of a stored permission gives the same full
\* name, the namespace alone when the name is empty, and a stored user's
\* aggregated permissions are those full names over its roles; the admin's
\* (users, "") contributes "users".
C19_FullNameEverywhere ==
    /\ \A p \in permissions :
         /\ full_name(p) = Joined(p)
         /\ role_permission_full_name(Perm(p.namespace, p.name)) = Joined(p)
         /\ user_permission_full_name(Perm(p.namespace, p.name)) = Joined(p)
    /\ \A u \in users :
         get_permissions(find_user_by_id(Db, u.id))
             = {Joined(p) : p \in UNION {find_by_id(Db, id).permissions :
                                           id \in u.roles}}
    /\ \A u \in users :
         Perm("users", "") \in UNION {find_by_id(Db, id).permissions : id \in u.roles}
             => "users" \in get_permissions(find_user_by_id(Db, u.id))

\* ---------------------------------------------------------------- C20
Elems(list) == {list[k] : k \in 1..Len(list)}

\* C20: has_permission answers false for a permission whose name is on the
\* user's prohibited list, whatever the roles grant, and otherwise true
\* exactly when one of the user's roles has a permission of that name; right
\* after add_prohibited_permission the permission is refused.
C20_DenyWins ==
    [][/\ last'.op = "has_permission" =>
            LET name       == last'.permission.scope_name
                prohibited == name \in Elems(domain_user.prohibited_permissions)
                granted    == \E role \in Elems(domain_user.roles) :
                                 \E p \in Elems(role.permissions) : p.scope_name = name
            IN  last'.res = Ok(IF prohibited THEN FALSE ELSE granted)
       /\ last'.op = "add_prohibited_permission" =>
            ~has_permission(domain_user', last'.permission)]_vars

\* a permission a role grants has been refused because it is prohibited
C20_Witness ==
    /\ last.op = "has_permission"
    /\ last.res = Ok(FALSE)
    /\ last.permission.scope_name \in Elems(domain_user.prohibited_permissions)
    /\ \E role \in Elems(domain_user.roles) :
          \E p \in Elems(role.permissions) : p.scope_name = last.permission.scope_name


\* ---------------------------------------------------------------- C13
\* C13: a refresh returns an access token for a token already revoked only
\* when it had passed both of its lookups before the revoke removed the
\* record; a refresh that begins on a revoked token, or reaches its second
\* lookup after the revoke, ends with an error and mints nothing.
C13_RefreshRevokeWindow ==
    [][\A i \in Reqs :
         /\ (/\ inflight[i].op = "refresh"
             /\ inflight'[i] = Idle
             /\ last'.res.ok
             /\ last'.refresh_token \in RevokedStrings) =>
                /\ inflight[i].pc = "mint"
                /\ inflight[i].token \in revoked
                /\ last'.res.val.access_token.claims.rtk = inflight[i].token.id
         /\ (inflight[i] = Idle /\ inflight'[i].op = "refresh") =>
                \E r \in tokenStore : r.token = inflight'[i].refresh_token
         /\ (/\ inflight[i].op = "refresh"
             /\ inflight[i].pc = "user"
             /\ inflight[i].refresh_token \in RevokedStrings
             /\ inflight'[i] # inflight[i]) =>
                /\ inflight'[i] = Idle
                /\ ~last'.res.ok
                /\ minted' = minted
         /\ (/\ inflight[i] = Idle
             /\ last'.op = "refresh_access_token"
             /\ last'.refresh_token \in RevokedStrings
             /\ inflight' = inflight) =>
                ~last'.res.ok]_vars

\* a refresh has returned an access token for a refresh token that a
\* completed revoke had removed
C13_Witness ==
    /\ last.op = "refresh_access_token"
    /\ last.res.ok
    /\ last.refresh_token \in RevokedStrings
    /\ \A r \in tokenStore : r.token # last.refresh_token


\* ---------------------------------------------------------------- C11
\* the scopes the token repository gives the stored user now
ScopesNow(user_id) ==
    UNION {map_to_token_user(u).scopes : u \in {u \in users : u.id = user_id}}

\* the pair create_token_pair returns: its access token is bound to its
\* refresh token, which is stored
PairIsBound ==
    (last'.op = "create_token_pair" /\ last'.res.ok) =>
        LET rt == last'.res.val[1]
            c  == last'.res.val[2].token.claims
        IN  /\ rt \in tokenStore'
            /\ c.rtk = rt.id
            /\ c.sub = rt.user_id
            /\ c.scopes = ScopesNow(rt.user_id)

\* the refresh flow has just returned an access token
RefreshReturns(i) ==
    /\ inflight[i].op = "refresh"
    /\ inflight'[i] = Idle
    /\ last'.op = "refresh_access_token"
    /\ last'.res.ok

\* C11 as stated: the access token of a pair is bound to the stored refresh
\* token of the pair, and an access token the refresh flow returns carries
\* the id of a refresh token that is in the store when the access token is
\* minted, that token's user_id, and that user's scopes.
C11_RtkStoredAtMint ==
    [][/\ PairIsBound
       /\ \A i \in Reqs :
            RefreshReturns(i) =>
                LET c == last'.res.val.access_token.claims
                IN  \E r \in tokenStore :
                        /\ r.id = c.rtk
                        /\ c.sub = r.user_id
                        /\ c.scopes = ScopesNow(r.user_id)]_vars

\* C11: the access token of a pair is bound to the stored refresh token of
\* the pair; an access token the refresh flow returns carries the id of the
\* refresh token record the flow read, which was stored under the presented
\* string when get_refresh_token read it and when get_user_from_refresh_token
\* read its user, that record's user_id, and the scopes that second lookup
\* returned, which were the user's scopes then.
C11_RtkReadFromStore ==
    [][/\ PairIsBound
       /\ \A i \in Reqs :
            /\ RefreshReturns(i) =>
                 LET c == last'.res.val.access_token.claims
                 IN  /\ inflight[i].pc = "mint"
                     /\ c.rtk = inflight[i].token.id
                     /\ c.sub = inflight[i].token.user_id
                     /\ c.scopes = inflight[i].user.scopes
            /\ (inflight[i] = Idle /\ inflight'[i].op = "refresh") =>
                 /\ inflight'[i].token \in tokenStore
                 /\ inflight'[i].token.token = inflight'[i].refresh_token
            /\ (inflight[i].op = "refresh" /\ inflight'[i].op = "refresh"
                    /\ inflight[i].pc = "user" /\ inflight'[i].pc = "mint") =>
                 /\ inflight'[i].token = inflight[i].token
                 /\ inflight[i].token \in tokenStore
                 /\ inflight'[i].user.id = inflight[i].token.user_id
                 /\ inflight'[i].user.scopes = ScopesNow(inflight[i].token.user_id)]_vars

\* the refresh flow has returned an access token whose rtk is the id of a
\* record that was removed from the store before the token was minted
C11_Witness ==
    /\ last.op = "refresh_access_token"
    /\ last.res.ok
    /\ \E r \in revoked : r.id = last.res.val.access_token.claims.rtk
    /\ \A r \in tokenStore : r.id # last.res.val.access_token.claims.rtk

\* ---------------------------------------------------------------- C12
\* the scopes of the Actor the gate builds from a token
ActorScopes(token) == Granted(Bearer(token))

\* the gate's answers for a token, one for each requirement
Decisions(token) == [rs \in RequiredScopes |-> has_any_scope(rs, token)]

\* C12 as stated: the Actor of an access token has the scope set the user
\* has when the token is minted.
C12_ScopesAtMint ==
    [][/\ \A i \in Reqs :
            RefreshReturns(i) =>
                ActorScopes(last'.res.val.access_token)
                    = ScopesNow(last'.res.val.access_token.claims.sub)
       /\ (last'.op = "create_token_pair" /\ last'.res.ok) =>
            ActorScopes(last'.res.val[2].token)
                = ScopesNow(last'.res.val[2].token.claims.sub)]_vars

\* C12: the Actor of an access token has the UserScope members of the scope
\* set the issuing flow read for the user (the refresh flow reads it in
\* get_user_from_refresh_token, before it mints); the gate's decisions for
\* an issued token and the Actor it returns do not change when roles or
\* permissions change; a change shows in a token only if the flow read the
\* user after it.
C12_ScopesAreSnapshot ==
    [][/\ \A i \in Reqs :
            RefreshReturns(i) =>
                ActorScopes(last'.res.val.access_token)
                    = inflight[i].user.scopes \cap UserScope
       /\ \A i \in Reqs :
            (inflight[i].op = "refresh" /\ inflight'[i].op = "refresh"
                /\ inflight[i].pc = "user" /\ inflight'[i].pc = "mint") =>
                inflight'[i].user.scopes = ScopesNow(inflight'[i].user.id)
       /\ (last'.op = "create_token_pair" /\ last'.res.ok) =>
            ActorScopes(last'.res.val[2].token)
                = ScopesNow(last'.res.val[2].token.claims.sub) \cap UserScope
       /\ rbac' # rbac =>
            \A a \in minted : Decisions(a)' = Decisions(a)
       /\ (last'.op = "has_any_scope" /\ last'.res.ok) =>
            last'.res.val.scopes = ActorScopes(last'.request.token)]_vars

\* the gate has admitted a token for a scope its user no longer has
C12_Witness ==
    /\ last.op = "has_any_scope"
    /\ last.res.ok
    /\ last.request.token \in minted
    /\ last.res.val.scopes \cap last.required_scopes
          \cap ScopesNow(last.request.token.claims.sub) = {}


C23_RefreshTokenLookups ==
    [][LET s    == last'.refresh_token
           rows == {r \in tokenStore : r.token = s}
       IN  /\ last'.op = "get_refresh_token" =>
                /\ tokenStore' = tokenStore
                /\ rows = {} => last'.res = NotFoundByToken
                /\ rows # {} => last'.res.ok /\ last'.res.val \in rows
           /\ last'.op = "get_user_from_refresh_token" =>
                /\ tokenStore' = tokenStore
                /\ rows = {} => last'.res = NotFoundUserByToken
                /\ rows # {} =>
                     /\ last'.res.ok
                     /\ \A r \in rows : last'.res.val.id = r.user_id
                     /\ \E u \in users : u.id = last'.res.val.id]_vars

\* a string that was never issued has been refused by get_refresh_token
\* while the store holds a token
C23_Witness ==
    /\ last.op = "get_refresh_token"
    /\ last.refresh_token = NeverIssued
    /\ last.res = NotFoundByToken
    /\ tokenStore # {}


\* ---------------------------------------------------------------- C24
\* C24: assign_permission_to_role returns false exactly when no role has
\* the id, remove_permission_from_role returns false exactly when no role
\* has the id or the role does not hold the permission, and a call that
\* returns false leaves the roles, the permission records and the links
\* between them as they were, and draws no row id.
C24_FalseChangesNothing ==
    [][LET role == find_by_id(Db, last'.role_id)
       IN  /\ last'.op = "assign_permission_to_role" =>
                /\ (last'.res = Ok(FALSE)) <=> (role = None)
                /\ last'.res = Ok(FALSE) => DbNext = Db
           /\ last'.op = "remove_permission_from_role" =>
                /\ (last'.res = Ok(FALSE)) <=>
                       (role = None \/ last'.permission \notin role.permissions)
                /\ last'.res = Ok(FALSE) => DbNext = Db]_vars

\* an assignment to a role that does not exist has returned false, and the
\* permission it named still has no record
C24_Witness ==
    /\ last.op = "assign_permission_to_role"
    /\ last.role_id = UnknownRoleId
    /\ last.res = Ok(FALSE)
    /\ permission_rows(Db, last.permission) = {}


\* ---------------------------------------------------------------- C26
\* C26: the refresh flow returns an access token only for a refresh token
\* that is in the store with an expiration later than the current time; a
\* stored refresh token whose expiration has passed yields no access token.
C26_RefreshOnlyUnexpired ==
    [][(last'.op = "refresh_access_token" /\ last'.res.ok) =>
           \E r \in tokenStore :
               /\ r.token = last'.refresh_token
               /\ r.expiration > now]_vars


\* ---------------------------------------------------------------- C21
\* C21: assigning roles is idempotent: the role list of the user that
\* assign_roles saves has at most one entry for a role, also when the
\* user already held a role that is assigned; and removing roles the user
\* does not hold leaves the role list that remove_roles saves as it was
\* loaded.
C21_RoleListIdempotent ==
    /\ (last.op = "assign_roles" /\ last.saved # <<>>) =>
          LET list == last.saved[1].roles
          IN  \A j, k \in 1..Len(list) :
                 list[j].role.id = list[k].role.id => j = k
    /\ (last.op = "remove_roles" /\ last.saved # <<>>) =>
          LET loaded == find_user_by_id(Db, last.user_id).roles
          IN  (\A k \in 1..Len(loaded) :
                  loaded[k].role.id \notin Elems(last.role_ids))
              => last.saved[1].roles = loaded


\* ---------------------------------------------------------------- C25
\* the row of the users table with the id, or None
UserRow(table, user_id) == first({u \in table : u.id = user_id})

\* C25: change_password replaces the stored hash when the current password
\* verifies and the new one passes the strength check, and then the new
\* password verifies against the stored hash and the old one does not; in
\* every other case it raises, saves nothing and leaves the stored hash as
\* it was.
C25_ChangePassword ==
    [][last'.op = "change_password" =>
         LET row   == UserRow(users, last'.user_id)
             input == last'.input
             may   == /\ row # None
                      /\ "salt" \in DOMAIN row.password_hash
                      /\ checkpw(input.password, row.password_hash)
                      /\ check_password_strength(input.new_password).ok
         IN  IF may
             THEN /\ last'.res.ok
                  /\ LET after == UserRow(users', last'.user_id).password_hash
                     IN  /\ "salt" \in DOMAIN after
                         /\ checkpw(input.new_password, after)
                         /\ ~checkpw(input.password, after)
             ELSE /\ ~last'.res.ok
                  /\ last'.saved = <<>>
                  /\ users' = users]_vars


\* ---------------------------------------------------------------- C27
\* C27: once register_user or create_user has created a user with email e
\* and password p, create_token_pair with e and p returns a pair for that
\* user, and create_token_pair with e and another password fails with the
\* incorrect-credentials error.
C27_CreatedUserSignsIn ==
    (last.op \in {"register_user", "create_user"} /\ last.res.ok) =>
        LET e    == last.input.email
            pair == create_token_pair(e, last.input.password, now, TRUE)
        IN  /\ pair.res.ok
            /\ \E u \in users : u.email = e /\ pair.res.val[1].user_id = u.id
            /\ \A p \in Passwords \ {last.input.password} :
                  create_token_pair(e, p, now, TRUE).res =
                      Raise("ValueError", "Incorrect username or password.")


C29_PermissionsOfRolesExist ==
    /\ \A rp \in role_permissions :
          /\ \E p \in permissions : p.id = rp.permission_id
          /\ \E r \in roles : r.id = rp.role_id
    /\ (last.op = "assign_permission_to_role" /\ last.res = Ok(TRUE)) =>
          \E r \in roles, rp \in role_permissions,
             p \in permission_rows(Db, last.permission) :
                r.id = last.role_id /\ rp.role_id = r.id /\ rp.permission_id = p.id

\* a removal has found the permission unused and deleted its records while
\* an assignment of the same permission stands between its
\* ensure_permission_exists and its save
C29_Witness ==
    /\ last.op = "remove_permission_from_role"
    /\ last.res = Ok(TRUE)
    /\ \E j \in Reqs :
          /\ inflight[j].op = "assign"
          /\ inflight[j].pc = "save"
          /\ inflight[j].permission = last.permission
    /\ permission_rows(Db, last.permission) = {}


\* ---------------------------------------------------------------- C30
\* two assign_permission_to_role calls on one role overlapped and both
\* returned true: the second returned in the step after the first, so it
\* had read the role before the first one saved
BothReturnedTrue ==
    /\ last.op = "assign_permission_to_role"
    /\ "after" \in DOMAIN last
    /\ last.res = Ok(TRUE)
    /\ last.after # None
    /\ last.after.res = Ok(TRUE)
    /\ last.after.role_id = last.role_id
    /\ last.after.slot # last.slot

\* the rows of a permission that a role is linked to
LinkedRows(role_id, permission) ==
    {rp \in role_permissions :
        /\ rp.role_id = role_id
        /\ \E p \in permission_rows(Db, permission) : p.id = rp.permission_id}

\* C30, as stated: when two concurrent assign_permission_to_role calls on
\* the same role have both returned true, the stored role holds the
\* permission of each of them, once.
C30_BothAssignmentsKept ==
    BothReturnedTrue =>
        \A permission \in {last.after.permission, last.permission} :
            Cardinality(LinkedRows(last.role_id, permission)) = 1

\* C30, amended: the stored role then holds exactly the permissions that
\* the call that saved last had read, and that call's own permission, each
\* once; the permission of the other call is held only if it is among
\* them.
C30_LastSaveWins ==
    BothReturnedTrue =>
        /\ find_by_id(Db, last.role_id).permissions
               = last.read \cup {last.permission}
        /\ \A permission \in last.read \cup {last.permission} :
               Cardinality(LinkedRows(last.role_id, permission)) = 1
        /\ LinkedRows(last.role_id, last.after.permission) # {}
               <=> last.after.permission \in last.read \cup {last.permission}

\* two overlapping assignments of different permissions have both returned
\* true and the role does not hold the permission of the first
C30_Witness ==
    /\ BothReturnedTrue
    /\ last.after.permission # last.permission
    /\ LinkedRows(last.role_id, last.after.permission) = {}
    /\ LinkedRows(last.role_id, last.permission) # {}

====
